---- MODULE Spec2Model ----
(***************************************************************************)
(* Model of the agentic-RAG Excel analyzer: the in-memory Tabular Store    *)
(* (src/data/storage.py), the Semantic Index manager                       *)
(* (src/rag/vector_store.py), the upload/delete routes (src/api/routes.py) *)
(* and the agent query loop (src/agent/executor.py, src/agent/tools.py).   *)
(*                                                                         *)
(* The specifications share the variables:                                 *)
(*   DataStoreSpec   threads calling DataStore methods directly            *)
(*   VectorStoreSpec threads calling VectorStoreManager methods directly   *)
(*   Spec            threads running the upload, delete and query routes   *)
(*   SheetSpec       calls of DataStore reads and writes on Python objects *)
(*   ToolSpec        one invocation of an agent tool, any arguments        *)
(*   AgentSpec       one DataAnalysisAgent.query run with its environment  *)
(*   QueriesSpec     DataAnalysisAgent.query runs interleaved on threads   *)
(*   OwnerSpec       SheetSpec's calls with a caller changing what it      *)
(*                   passed to add_dataset                                 *)
(*   GroupSpec, TrendSpec, IngestSpec, MetadataSpec, LookupSpec            *)
(*                   one application each of group_by_analysis,            *)
(*                   analyze_trend, process_file, build_metadata and the   *)
(*                   schema lookups to every input of a bounded set        *)
(* The AgentExecutor loop is the library's; it is modelled as query()      *)
(* configures it (max_iterations, handle_parsing_errors=True,              *)
(* return_intermediate_steps=True).                                        *)
(***************************************************************************)
EXTENDS Integers, Sequences, FiniteSets, TLC

\* ---------------------------------------------------------------- bounds
NumThreads == 2
NumIds == 2
NumVals == 2

Threads == 1..NumThreads
Ids == 1..NumIds
Vals == 1..NumVals

NoThread == 0
\* A dataset id no upload ever produced (a client may send any string).
UnknownId == 0
NoArg == [id |-> UnknownId, val |-> 0]

VARIABLES
    datasets,            \* DataStore._datasets : dataset id -> sheets
    metadata,            \* DataStore._metadata : dataset id -> metadata record
    data_lock,           \* DataStore._data_lock : owning thread or NoThread
    stores,              \* VectorStoreManager._stores : dataset id -> store
    store_lock,          \* VectorStoreManager._store_lock : owner or NoThread
    pc,                  \* per thread: position in the running method
    op,                  \* per thread: the outermost operation being run
    arg,                 \* per thread: its dataset id and payload
    ret,                 \* per thread: value or exception of the last call
    stack,               \* per thread: return positions of the open calls
    attempted,           \* per thread: underlying deletes the route started
    published,           \* dataset ids a finished upload has handed out
    generated,           \* dataset ids uuid4() has produced so far
    q_pc,                \* agent query: position
    rag_context,         \* agent query: what _get_rag_context returned
    llm_out,             \* agent query: last reply of the reasoning capability
    pending,             \* agent query: the action the reply asked for
    outcome,             \* agent query: what running that action produced
    iterations,          \* agent query: AgentExecutor iteration counter
    intermediate_steps,  \* agent query: (action, observation) pairs so far
    executed,            \* agent query: log of the tool bodies actually run
    response,            \* agent query: the dictionary query() returned
    ext_failed,          \* agent query: an external capability call failed
    heap,                \* Python objects: reference -> dict or DataFrame
    held,                \* per thread: the result its last read returned
    fn_input,            \* function under study: its argument
    fn_output,           \* function under study: its result
    fn_done,             \* function under study: it has been applied
    warned               \* per thread: its operation has logged a warning

storeVars == <<datasets, metadata, data_lock, stores, store_lock>>
threadVars == <<pc, op, arg, ret, stack>>
routeVars == <<attempted, published, generated>>
agentVars == <<q_pc, rag_context, llm_out, pending, outcome, iterations,
               intermediate_steps,
               executed, response, ext_failed>>
heapVars == <<heap, held>>
fnVars == <<fn_input, fn_output, fn_done>>
logVars == <<warned>>
vars == <<datasets, metadata, data_lock, stores, store_lock,
          pc, op, arg, ret, stack, attempted, published, generated,
          q_pc, rag_context, llm_out, pending, outcome, iterations,
          intermediate_steps, executed, response, ext_failed, heap, held,
          fn_input, fn_output, fn_done, warned>>

\* ------------------------------------------------- Python dict operations
EmptyDict == [x \in {} |-> 0]

\* d[k] = v
DictSet(d, k, v) == [x \in (DOMAIN d) \cup {k} |-> IF x = k THEN v ELSE d[x]]

\* del d[k]
DictDel(d, k) == [x \in (DOMAIN d) \ {k} |-> d[x]]

\* --------------------------------------------------------- Python objects
\* References are positive integers; the heap maps the live ones to objects.
NoRef == 0
NoneArg == "<None>"

\* A dict of sheets keeps its items in insertion order.
Item(name, ref) == [name |-> name, ref |-> ref]
DictObj(items) ==
    [kind |-> "dict", items |-> items, tag |-> "-", rows |-> 0,
     edited |-> FALSE]

\* A DataFrame: the sheet it was read from, its row count and whether a
\* column of it has been assigned to.
TableObj(tag, rows) ==
    [kind |-> "table", items |-> <<>>, tag |-> tag, rows |-> rows,
     edited |-> FALSE]

\* The reference the next allocated object gets.
NewRef(h) ==
    CHOOSE r \in 1..(Cardinality(DOMAIN h) + 1) :
        /\ r \notin DOMAIN h
        /\ \A q \in 1..(r - 1) : q \in DOMAIN h

\* list(sheets.keys())
Keys(h, d) == [k \in 1..Len(h[d].items) |-> h[d].items[k].name]

\* sheet_name in sheets
HasKey(h, d, name) == \E k \in 1..Len(h[d].items) : h[d].items[k].name = name

\* sheets[sheet_name]
Lookup(h, d, name) ==
    h[d].items[CHOOSE k \in 1..Len(h[d].items) : h[d].items[k].name = name].ref

\* `if sheet_name:` is false for None and for the empty string.
Truthy(name) == name \notin {NoneArg, ""}

\* DataFrame.copy(): a new object with the same content.
df_copy_alias(h, r) == [heap |-> h, ref |-> r]
df_copy(h, r) == [heap |-> DictSet(h, NewRef(h), h[r]), ref |-> NewRef(h)]

\* {name: df.copy() for name, df in sheets.items()}
RECURSIVE CopyAll(_, _)
CopyAll(h, items) ==
    IF items = <<>>
      THEN [heap |-> h, items |-> <<>>]
      ELSE LET c == df_copy(h, Head(items).ref)
               rest == CopyAll(c.heap, Tail(items))
           IN [heap |-> rest.heap,
               items |-> <<Item(Head(items).name, c.ref)>> \o rest.items]

\* A list of names as a result value.
NameList(names) == [k \in 1..Len(names) |-> Item(names[k], NoRef)]

\* The objects process_file builds for workbook v: a dict with one sheet.
ParsedWorkbooks ==
    [r \in 1..(2 * NumVals) |->
        IF r \in Vals
          THEN DictObj(<<Item("Sales", NumVals + r)>>)
          ELSE TableObj("Sales", r - NumVals - 1)]

\* References some sheets dict holds.
Referenced(h) ==
    UNION {{h[d].items[k].ref : k \in 1..Len(h[d].items)} : d \in DOMAIN h}

\* References a result value holds.
RefsOf(items) == {items[k].ref : k \in 1..Len(items)}

\* The heap once thread t has dropped its result: an object nothing else
\* refers to is reclaimed.
Released(h, hd, t) ==
    LET gone == {r \in RefsOf(hd[t]) \cap DOMAIN h :
                    /\ r \notin Referenced(h)
                    /\ \A u \in DOMAIN hd : u # t => r \notin RefsOf(hd[u])}
    IN [r \in DOMAIN h \ gone |-> h[r]]

\* ------------------------------------------------------- call and return
\* A method returns (or raises) to the position on top of the thread's stack.
ReturnTo(t, value) ==
    /\ pc' = [pc EXCEPT ![t] = Head(stack[t])]
    /\ stack' = [stack EXCEPT ![t] = Tail(stack[t])]
    /\ ret' = [ret EXCEPT ![t] = value]

\* The outermost operation has returned: the thread becomes idle again.
Finish(t) ==
    /\ pc[t] = "done"
    /\ pc' = [pc EXCEPT ![t] = "idle"]
    /\ op' = [op EXCEPT ![t] = "none"]
    /\ arg' = [arg EXCEPT ![t] = NoArg]
    /\ ret' = [ret EXCEPT ![t] = "none"]
    /\ attempted' = [attempted EXCEPT ![t] = {}]
    /\ held' = [held EXCEPT ![t] = <<>>]
    /\ heap' = Released(heap, held, t)
    /\ warned' = [warned EXCEPT ![t] = FALSE]
    /\ UNCHANGED <<storeVars, stack, published, generated, agentVars, fnVars>>

\* =========================================================== DataStore
\* add_dataset: `with self._data_lock:`
add_dataset_lock(t) ==
    /\ pc[t] = "ad_lock"
    /\ data_lock = NoThread
    /\ data_lock' = t
    /\ pc' = [pc EXCEPT ![t] = "ad_sheets"]
    /\ UNCHANGED <<datasets, metadata, stores, store_lock, op, arg, ret, stack,
                   routeVars, agentVars, fnVars, logVars, heapVars>>

\* self._datasets[dataset_id] = sheets
add_dataset_sheets(t) ==
    /\ pc[t] = "ad_sheets"
    /\ datasets' = DictSet(datasets, arg[t].id, arg[t].val)
    /\ pc' = [pc EXCEPT ![t] = "ad_meta"]
    /\ UNCHANGED <<metadata, data_lock, stores, store_lock, op, arg, ret, stack,
                   routeVars, agentVars, fnVars, logVars, heapVars>>

\* self._metadata[dataset_id] = {...}; the lock is released on leaving `with`
add_dataset_meta(t) ==
    /\ pc[t] = "ad_meta"
    /\ metadata' = DictSet(metadata, arg[t].id, arg[t].val)
    /\ data_lock' = NoThread
    /\ ReturnTo(t, "ok")
    /\ UNCHANGED <<datasets, stores, store_lock, op, arg, routeVars, agentVars, fnVars, logVars,
                   heapVars>>

\* delete_dataset: `with self._data_lock:`
delete_dataset_lock(t) ==
    /\ pc[t] = "dd_lock"
    /\ data_lock = NoThread
    /\ data_lock' = t
    /\ pc' = [pc EXCEPT ![t] = "dd_sheets"]
    /\ UNCHANGED <<datasets, metadata, stores, store_lock, op, arg, ret, stack,
                   routeVars, agentVars, fnVars, logVars, heapVars>>

\* if dataset_id not in self._datasets: raise ValueError
\* del self._datasets[dataset_id]
delete_dataset_sheets(t) ==
    /\ pc[t] = "dd_sheets"
    /\ IF arg[t].id \notin DOMAIN datasets
         THEN /\ data_lock' = NoThread
              /\ ReturnTo(t, "ValueError")
              /\ UNCHANGED datasets
         ELSE /\ datasets' = DictDel(datasets, arg[t].id)
              /\ pc' = [pc EXCEPT ![t] = "dd_meta"]
              /\ UNCHANGED <<data_lock, ret, stack>>
    /\ UNCHANGED <<metadata, stores, store_lock, op, arg, routeVars, agentVars, fnVars, logVars,
                   heapVars>>

\* A delete that forgets the metadata record.
delete_dataset_meta_keeps_record(t) ==
    /\ pc[t] = "dd_meta"
    /\ data_lock' = NoThread
    /\ ReturnTo(t, "ok")
    /\ UNCHANGED <<datasets, metadata, stores, store_lock, op, arg,
                   routeVars, agentVars, fnVars, logVars, heapVars>>

\* del self._metadata[dataset_id]; the lock is released on leaving `with`
delete_dataset_meta(t) ==
    /\ pc[t] = "dd_meta"
    /\ metadata' = DictDel(metadata, arg[t].id)
    /\ data_lock' = NoThread
    /\ ReturnTo(t, "ok")
    /\ UNCHANGED <<datasets, stores, store_lock, op, arg, routeVars, agentVars, fnVars, logVars,
                   heapVars>>

\* dataset_exists: `with self._data_lock: return dataset_id in self._datasets`
dataset_exists(t) ==
    /\ pc[t] = "de_call"
    /\ data_lock = NoThread
    /\ ReturnTo(t, IF arg[t].id \in DOMAIN datasets THEN "True" ELSE "False")
    /\ UNCHANGED <<storeVars, op, arg, routeVars, agentVars, fnVars, logVars, heapVars>>

\* get_dataframe written without the sheet_name branch: always the first sheet.
GetDataframe_ignores_name(h, ds, id, name) ==
    IF id \notin DOMAIN ds
      THEN [status |-> "ValueError", names |-> <<>>, name |-> name,
            src |-> NoRef]
      ELSE IF h[ds[id]].items = <<>>
        THEN [status |-> "IndexError", names |-> <<>>, name |-> name,
              src |-> NoRef]
        ELSE [status |-> "ok", names |-> <<>>,
              name |-> Head(h[ds[id]].items).name,
              src |-> Head(h[ds[id]].items).ref]

\* get_dataframe as a function of the store: what it returns or raises, the
\* sheet names its error message lists, and the stored frame it copies.
GetDataframe(h, ds, id, name) ==
    IF id \notin DOMAIN ds
      THEN [status |-> "ValueError", names |-> <<>>, name |-> name,
            src |-> NoRef]
      ELSE IF Truthy(name)
        THEN IF ~HasKey(h, ds[id], name)
               THEN [status |-> "ValueError", names |-> Keys(h, ds[id]),
                     name |-> name, src |-> NoRef]
               ELSE [status |-> "ok", names |-> <<>>, name |-> name,
                     src |-> Lookup(h, ds[id], name)]
        ELSE \* first_sheet = list(sheets.values())[0]
             IF h[ds[id]].items = <<>>
               THEN [status |-> "IndexError", names |-> <<>>, name |-> name,
                     src |-> NoRef]
               ELSE [status |-> "ok", names |-> <<>>,
                     name |-> Head(h[ds[id]].items).name,
                     src |-> Head(h[ds[id]].items).ref]

\* get_dataframe: `with self._data_lock:` ... `return sheets[...].copy()`
get_dataframe(t) ==
    /\ pc[t] = "gd_call"
    /\ data_lock = NoThread
    /\ LET r == GetDataframe(heap, datasets, arg[t].id, arg[t].val)
           c == df_copy(heap, r.src)
       IN /\ ReturnTo(t, r.status)
          /\ IF r.status = "ok"
               THEN /\ heap' = c.heap
                    /\ held' = [held EXCEPT ![t] = <<Item(r.name, c.ref)>>]
               ELSE /\ heap' = heap
                    /\ held' = [held EXCEPT ![t] = NameList(r.names)]
    /\ UNCHANGED <<storeVars, op, arg, routeVars, agentVars, fnVars, logVars>>

\* get_all_sheets: a new dict with a copy of every sheet
get_all_sheets(t) ==
    /\ pc[t] = "ga_call"
    /\ data_lock = NoThread
    /\ IF arg[t].id \notin DOMAIN datasets
         THEN /\ ReturnTo(t, "ValueError")
              /\ UNCHANGED heapVars
         ELSE LET c == CopyAll(heap, heap[datasets[arg[t].id]].items)
              IN /\ ReturnTo(t, "ok")
                 /\ heap' = c.heap
                 /\ held' = [held EXCEPT ![t] = c.items]
    /\ UNCHANGED <<storeVars, op, arg, routeVars, agentVars, fnVars, logVars>>

\* get_sheet_names: list(self._datasets[dataset_id].keys())
get_sheet_names(t) ==
    /\ pc[t] = "gs_call"
    /\ data_lock = NoThread
    /\ IF arg[t].id \notin DOMAIN datasets
         THEN /\ ReturnTo(t, "ValueError")
              /\ UNCHANGED held
         ELSE /\ ReturnTo(t, "ok")
              /\ held' = [held EXCEPT ![t] =
                            NameList(Keys(heap, datasets[arg[t].id]))]
    /\ UNCHANGED <<storeVars, op, arg, routeVars, agentVars, fnVars, logVars, heap>>

\* A client thread calls one DataStore method.
DataStoreCall(t) ==
    /\ pc[t] = "idle"
    /\ \E m \in {"add_dataset", "delete_dataset", "dataset_exists"},
          i \in Ids, v \in Vals :
          /\ op' = [op EXCEPT ![t] = m]
          /\ arg' = [arg EXCEPT ![t] =
                       [id |-> i, val |-> IF m = "add_dataset" THEN v ELSE 0]]
          /\ pc' = [pc EXCEPT ![t] =
                       CASE m = "add_dataset" -> "ad_lock"
                         [] m = "delete_dataset" -> "dd_lock"
                         [] OTHER -> "de_call"]
    /\ stack' = [stack EXCEPT ![t] = <<"done">>]
    /\ UNCHANGED <<storeVars, ret, routeVars, agentVars, fnVars, logVars, heapVars>>

\* ==================================================== VectorStoreManager
\* create_store: `with self._store_lock:`
create_store_lock(t) ==
    /\ pc[t] = "cs_lock"
    /\ store_lock = NoThread
    /\ store_lock' = t
    /\ pc' = [pc EXCEPT ![t] = "cs_check"]
    /\ UNCHANGED <<datasets, metadata, data_lock, stores, op, arg, ret, stack,
                   routeVars, agentVars, fnVars, logVars, heapVars>>

\* if dataset_id in self._stores: self.delete_store(dataset_id)
\* The call is made while this thread still holds _store_lock.
create_store_check(t) ==
    /\ pc[t] = "cs_check"
    /\ IF arg[t].id \in DOMAIN stores
         THEN /\ pc' = [pc EXCEPT ![t] = "ds_lock"]
              /\ stack' = [stack EXCEPT ![t] = <<"cs_build">> \o stack[t]]
         ELSE /\ pc' = [pc EXCEPT ![t] = "cs_build"]
              /\ UNCHANGED stack
    /\ UNCHANGED <<storeVars, op, arg, ret, routeVars, agentVars, fnVars, logVars, heapVars>>

\* vector_store = Chroma.from_documents(...); self._stores[dataset_id] = ...
\* except Exception: raise ValueError.  The lock is released on leaving `with`.
create_store_build(t) ==
    /\ pc[t] = "cs_build"
    /\ \E embedded \in BOOLEAN :
          IF embedded
            THEN /\ stores' = DictSet(stores, arg[t].id, arg[t].val)
                 /\ ReturnTo(t, "ok")
            ELSE /\ UNCHANGED stores
                 /\ ReturnTo(t, "ValueError")
    /\ store_lock' = NoThread
    /\ UNCHANGED <<datasets, metadata, data_lock, op, arg, routeVars, agentVars, fnVars, logVars,
                   heapVars>>

\* delete_store: `with self._store_lock:` on a threading.Lock, which is not
\* reentrant: the acquire waits until the lock is free, whoever holds it.
delete_store_lock(t) ==
    /\ pc[t] = "ds_lock"
    /\ store_lock = NoThread
    /\ store_lock' = t
    /\ pc' = [pc EXCEPT ![t] = "ds_body"]
    /\ UNCHANGED <<datasets, metadata, data_lock, stores, op, arg, ret, stack,
                   routeVars, agentVars, fnVars, logVars, heapVars>>

\* delete_store written with self._stores.pop(dataset_id, None): a missing
\* store is not reported.
delete_store_body_silent(t) ==
    /\ pc[t] = "ds_body"
    /\ stores' = DictDel(stores, arg[t].id)
    /\ ReturnTo(t, "ok")
    /\ store_lock' = NoThread
    /\ UNCHANGED <<datasets, metadata, data_lock, op, arg, routeVars, agentVars, fnVars, logVars,
                   heapVars>>

\* delete_store without its try/except around delete_collection(): the
\* failure leaves the method and the store stays.
delete_store_body_propagates(t) ==
    /\ pc[t] = "ds_body"
    /\ IF arg[t].id \notin DOMAIN stores
         THEN /\ UNCHANGED stores
              /\ ReturnTo(t, "ValueError")
              /\ UNCHANGED warned
         ELSE \E collection_deleted \in BOOLEAN :
                 /\ warned' = [warned EXCEPT ![t] = ~collection_deleted]
                 /\ IF collection_deleted
                      THEN /\ stores' = DictDel(stores, arg[t].id)
                           /\ ReturnTo(t, "ok")
                      ELSE /\ UNCHANGED stores
                           /\ ReturnTo(t, "Exception")
    /\ store_lock' = NoThread
    /\ UNCHANGED <<datasets, metadata, data_lock, op, arg, routeVars, agentVars, fnVars,
                   heapVars>>

\* if dataset_id not in self._stores: raise ValueError
\* try: delete_collection() except: log;  del self._stores[dataset_id]
delete_store_body(t) ==
    /\ pc[t] = "ds_body"
    /\ IF arg[t].id \notin DOMAIN stores
         THEN /\ UNCHANGED stores
              /\ ReturnTo(t, "ValueError")
              /\ UNCHANGED warned
         ELSE /\ \E collection_deleted \in BOOLEAN :
                    /\ warned' = [warned EXCEPT ![t] = ~collection_deleted]
                    /\ stores' = DictDel(stores, arg[t].id)
              /\ ReturnTo(t, "ok")
    /\ store_lock' = NoThread
    /\ UNCHANGED <<datasets, metadata, data_lock, op, arg, routeVars, agentVars, fnVars,
                   heapVars>>

\* store_exists: `with self._store_lock: return dataset_id in self._stores`
store_exists(t) ==
    /\ pc[t] = "se_call"
    /\ store_lock = NoThread
    /\ ReturnTo(t, IF arg[t].id \in DOMAIN stores THEN "True" ELSE "False")
    /\ UNCHANGED <<storeVars, op, arg, routeVars, agentVars, fnVars, logVars, heapVars>>

\* query_metadata: `with self._store_lock:`
query_metadata_lock(t) ==
    /\ pc[t] = "qm_lock"
    /\ store_lock = NoThread
    /\ store_lock' = t
    /\ pc' = [pc EXCEPT ![t] = "qm_body"]
    /\ UNCHANGED <<datasets, metadata, data_lock, stores, op, arg, ret, stack,
                   routeVars, agentVars, fnVars, logVars, heapVars>>

\* if dataset_id not in self._stores: raise ValueError
\* try: results = vector_store.similarity_search(...) except: raise ValueError
query_metadata_body(t) ==
    /\ pc[t] = "qm_body"
    /\ IF arg[t].id \notin DOMAIN stores
         THEN ReturnTo(t, "ValueError")
         ELSE \E found \in {"docs", "no_docs", "ValueError"} :
                  ReturnTo(t, found)
    /\ store_lock' = NoThread
    /\ UNCHANGED <<datasets, metadata, data_lock, stores, op, arg,
                   routeVars, agentVars, fnVars, logVars, heapVars>>

\* A client thread calls one VectorStoreManager method.
VectorStoreCall(t) ==
    /\ pc[t] = "idle"
    /\ \E m \in {"create_store", "delete_store", "store_exists", "query_metadata"},
          i \in Ids, v \in Vals :
          /\ op' = [op EXCEPT ![t] = m]
          /\ arg' = [arg EXCEPT ![t] =
                       [id |-> i, val |-> IF m = "create_store" THEN v ELSE 0]]
          /\ pc' = [pc EXCEPT ![t] =
                       CASE m = "create_store" -> "cs_lock"
                         [] m = "delete_store" -> "ds_lock"
                         [] m = "store_exists" -> "se_call"
                         [] OTHER -> "qm_lock"]
    /\ stack' = [stack EXCEPT ![t] = <<"done">>]
    /\ UNCHANGED <<storeVars, ret, routeVars, agentVars, fnVars, logVars, heapVars>>

\* ================================================================ routes
\* upload_excel: dataset_id = str(uuid.uuid4()); validate_file_size and
\* process_file raise ValueError (-> 422) before anything is stored.
upload_excel_start(t) ==
    /\ pc[t] = "idle"
    /\ \E i \in Ids \ generated, v \in Vals, parsed \in BOOLEAN :
          /\ generated' = generated \cup {i}
          /\ op' = [op EXCEPT ![t] = "upload_excel"]
          /\ arg' = [arg EXCEPT ![t] = [id |-> i, val |-> v]]
          /\ IF parsed
               THEN \* data_store.add_dataset(dataset_id, sheets, metadata)
                    /\ pc' = [pc EXCEPT ![t] = "ad_lock"]
                    /\ stack' = [stack EXCEPT ![t] = <<"up_added">>]
                    /\ UNCHANGED ret
               ELSE /\ pc' = [pc EXCEPT ![t] = "done"]
                    /\ ret' = [ret EXCEPT ![t] = "HTTP422"]
                    /\ UNCHANGED stack
    /\ UNCHANGED <<storeVars, attempted, published, agentVars, fnVars, logVars, heapVars>>

\* rag_documents = MetadataBuilder.build_metadata(sheets, dataset_id)
\* vector_store_manager.create_store(dataset_id, rag_documents)
upload_excel_added(t) ==
    /\ pc[t] = "up_added"
    /\ pc' = [pc EXCEPT ![t] = "cs_lock"]
    /\ stack' = [stack EXCEPT ![t] = <<"up_created">>]
    /\ UNCHANGED <<storeVars, op, arg, ret, routeVars, agentVars, fnVars, logVars, heapVars>>

\* return UploadResponse(...)  /  except ValueError: raise HTTPException(422)
upload_excel_created(t) ==
    /\ pc[t] = "up_created"
    /\ pc' = [pc EXCEPT ![t] = "done"]
    /\ IF ret[t] = "ValueError"
         THEN /\ ret' = [ret EXCEPT ![t] = "HTTP422"]
              /\ UNCHANGED published
         ELSE /\ ret' = [ret EXCEPT ![t] = "HTTP200"]
              /\ published' = published \cup {arg[t].id}
    /\ UNCHANGED <<storeVars, op, arg, stack, attempted, generated, agentVars, fnVars, logVars,
                   heapVars>>

\* The dataset ids a client can name: those an upload has returned and those
\* GET /datasets (data_store.list_datasets) shows.
Listed == published \cup DOMAIN metadata

\* DELETE /dataset/{dataset_id}: if not data_store.dataset_exists(dataset_id)
route_delete_start(t) ==
    /\ pc[t] = "idle"
    /\ \E i \in Listed \cup {UnknownId} :
          arg' = [arg EXCEPT ![t] = [id |-> i, val |-> 0]]
    /\ op' = [op EXCEPT ![t] = "route_delete"]
    /\ pc' = [pc EXCEPT ![t] = "de_call"]
    /\ stack' = [stack EXCEPT ![t] = <<"del_checked">>]
    /\ UNCHANGED <<storeVars, ret, routeVars, agentVars, fnVars, logVars, heapVars>>

\* raise HTTPException(404)  /  data_store.delete_dataset(dataset_id)
route_delete_checked(t) ==
    /\ pc[t] = "del_checked"
    /\ IF ret[t] = "False"
         THEN /\ pc' = [pc EXCEPT ![t] = "done"]
              /\ ret' = [ret EXCEPT ![t] = "HTTP404"]
              /\ UNCHANGED <<stack, attempted>>
         ELSE /\ pc' = [pc EXCEPT ![t] = "dd_lock"]
              /\ stack' = [stack EXCEPT ![t] = <<"del_tabular_done">>]
              /\ attempted' = [attempted EXCEPT ![t] = @ \cup {"tabular"}]
              /\ UNCHANGED ret
    /\ UNCHANGED <<storeVars, op, arg, published, generated, agentVars, fnVars, logVars,
                   heapVars>>

\* A ValueError of delete_dataset reaches `except Exception` (-> 500);
\* otherwise: if vector_store_manager.store_exists(dataset_id)
route_delete_tabular_done(t) ==
    /\ pc[t] = "del_tabular_done"
    /\ IF ret[t] = "ValueError"
         THEN /\ pc' = [pc EXCEPT ![t] = "done"]
              /\ ret' = [ret EXCEPT ![t] = "HTTP500"]
              /\ UNCHANGED <<stack, attempted>>
         ELSE /\ pc' = [pc EXCEPT ![t] = "se_call"]
              /\ stack' = [stack EXCEPT ![t] = <<"del_store_checked">>]
              /\ attempted' = [attempted EXCEPT ![t] = @ \cup {"index"}]
              /\ UNCHANGED ret
    /\ UNCHANGED <<storeVars, op, arg, published, generated, agentVars, fnVars, logVars,
                   heapVars>>

\* vector_store_manager.delete_store(dataset_id) when the store exists;
\* then the uploaded file is removed (failures logged) and 200 is returned.
route_delete_store_checked(t) ==
    /\ pc[t] = "del_store_checked"
    /\ IF ret[t] = "True"
         THEN /\ pc' = [pc EXCEPT ![t] = "ds_lock"]
              /\ stack' = [stack EXCEPT ![t] = <<"del_index_done">>]
              /\ UNCHANGED ret
         ELSE /\ pc' = [pc EXCEPT ![t] = "done"]
              /\ ret' = [ret EXCEPT ![t] = "HTTP200"]
              /\ UNCHANGED stack
    /\ UNCHANGED <<storeVars, op, arg, routeVars, agentVars, fnVars, logVars, heapVars>>

\* A ValueError of delete_store reaches `except Exception` (-> 500).
route_delete_index_done(t) ==
    /\ pc[t] = "del_index_done"
    /\ pc' = [pc EXCEPT ![t] = "done"]
    /\ ret' = [ret EXCEPT ![t] =
                 IF ret[t] = "ValueError" THEN "HTTP500" ELSE "HTTP200"]
    /\ UNCHANGED <<storeVars, op, arg, stack, routeVars, agentVars, fnVars, logVars, heapVars>>

\* POST /query: if not data_store.dataset_exists(request.dataset_id)
route_query_start(t) ==
    /\ pc[t] = "idle"
    /\ \E i \in Listed \cup {UnknownId}, n \in {NoneArg, "Sales", "Missing"} :
          arg' = [arg EXCEPT ![t] = [id |-> i, val |-> n]]
    /\ op' = [op EXCEPT ![t] = "route_query"]
    /\ pc' = [pc EXCEPT ![t] = "de_call"]
    /\ stack' = [stack EXCEPT ![t] = <<"qr_checked">>]
    /\ UNCHANGED <<storeVars, ret, routeVars, agentVars, fnVars, logVars, heapVars>>

\* raise HTTPException(404)  /  data_store.get_sheet_names(dataset_id)
route_query_checked(t) ==
    /\ pc[t] = "qr_checked"
    /\ IF ret[t] = "False"
         THEN /\ pc' = [pc EXCEPT ![t] = "done"]
              /\ ret' = [ret EXCEPT ![t] = "HTTP404"]
              /\ UNCHANGED stack
         ELSE /\ pc' = [pc EXCEPT ![t] = "gs_call"]
              /\ stack' = [stack EXCEPT ![t] = <<"qr_sheets">>]
              /\ UNCHANGED ret
    /\ UNCHANGED <<storeVars, op, arg, routeVars, agentVars, fnVars, logVars, heapVars>>

\* The sheet is resolved: a ValueError of get_sheet_names and the IndexError
\* of sheet_names[0] reach `except Exception` (500), an unknown sheet is 400;
\* otherwise the next statement is data_analysis_agent.query(...).
route_query_sheets(t) ==
    /\ pc[t] = "qr_sheets"
    /\ LET names == {held[t][k].name : k \in 1..Len(held[t])}
           status == CASE ret[t] = "ValueError" -> "HTTP500"
                       [] ret[t] # "ValueError" /\ Truthy(arg[t].val)
                          /\ arg[t].val \notin names -> "HTTP400"
                       [] ret[t] # "ValueError" /\ ~Truthy(arg[t].val)
                          /\ names = {} -> "HTTP500"
                       [] OTHER -> "begin"
       IN IF status = "begin"
            THEN /\ pc' = [pc EXCEPT ![t] = "qr_begin"]
                 /\ UNCHANGED ret
            ELSE /\ pc' = [pc EXCEPT ![t] = "done"]
                 /\ ret' = [ret EXCEPT ![t] = status]
    /\ UNCHANGED <<storeVars, op, arg, stack, routeVars, agentVars, fnVars, logVars, heapVars>>

\* result = data_analysis_agent.query(...): query() catches every exception
\* itself, so the route answers 200 with the dictionary it returned.
route_query_agent(t) ==
    /\ pc[t] = "qr_begin"
    /\ pc' = [pc EXCEPT ![t] = "done"]
    /\ ret' = [ret EXCEPT ![t] = "HTTP200"]
    /\ UNCHANGED <<storeVars, op, arg, stack, routeVars, agentVars, fnVars, logVars, heapVars>>

\* ============================================================ agent tools
\* The dataset the query runs against, and the sheet shape.  The sheets
\* payload v of a dataset stands for a sheet of v - 1 rows with the columns
\* of create_sample_data.py.
QId == 1
RowsOf(v) == v - 1
ShortLen == 80
LongLen == 1200
ObsLimit == 500

ColType == [region |-> "text", sales |-> "numeric", date |-> "datetime"]
Columns == DOMAIN ColType
ColArgs == Columns \cup {"nonexistent_column"}
\* list(df.columns): the sheet's columns in the order of the sheet.
ColumnList == <<"date", "region", "sales">>
\* list(operations_map.keys()) of aggregate_data and of group_by_analysis
AggOpList == <<"sum", "mean", "median", "count", "min", "max", "std">>
GroupOpList == <<"sum", "mean", "median", "count", "min", "max">>
AggOps == {AggOpList[k] : k \in DOMAIN AggOpList}
GroupOps == {GroupOpList[k] : k \in DOMAIN GroupOpList}
OpArgs == AggOps \cup {"stdev", "bogus"}
Filters == {"region == 'North'", "region == 'Mars'",
            "nonexistent_column > 1", "sales >"}

\* A value returned or an exception raised by a Python expression.
Ok(v) == [raised |-> FALSE, val |-> v]
Raise(e) ==
    [raised |-> TRUE, val |-> [kind |-> e, len |-> 0, key |-> "-", list |-> <<>>]]

\* An observation: the kind of JSON object or text, its length, and the one
\* key of it whose value the claims look at, with that value.
ObsWith(kind, len, key, list) ==
    Ok([kind |-> kind, len |-> len, key |-> key, list |-> list])
Obs(kind, len) == ObsWith(kind, len, "-", <<>>)

Call(tool, a1, a2, a3) == [tool |-> tool, a1 |-> a1, a2 |-> a2, a3 |-> a3]
NoCall == Call("none", "-", "-", "-")
NoOutcome == Raise("none")

\* get_df(): data_store.get_dataframe(dataset_id, sheet_name)
get_df ==
    IF QId \in DOMAIN datasets
      THEN Ok([rows |-> RowsOf(datasets[QId]), columns |-> ColumnList])
      ELSE Raise("ValueError")

\* df.query(filter_condition): pandas raises on a syntax error and on a
\* name that is not a column; otherwise the matching rows remain.
df_query(df, f) ==
    CASE f = "region == 'North'" -> Ok(df)
      [] f = "region == 'Mars'" -> Ok([df EXCEPT !.rows = 0])
      [] f = "nonexistent_column > 1" -> Raise("UndefinedVariableError")
      [] OTHER -> Raise("SyntaxError")

\* A data result: its JSON is long when rows are listed.
DataResult(df) == Obs("result", IF df.rows > 0 THEN LongLen ELSE ShortLen)

\* An error that reports only the numeric columns.
ColumnError_numeric_only(df) ==
    ObsWith("validation_error", ShortLen, "available_columns",
            SelectSeq(df.columns, LAMBDA c : ColType[c] = "numeric"))

\* {"error": ..., "available_columns": list(df.columns)}
ColumnError(df) ==
    ObsWith("validation_error", ShortLen, "available_columns", df.columns)

\* {"error": ..., "valid_operations": list(operations_map.keys())}
OperationError(ops) ==
    ObsWith("validation_error", ShortLen, "valid_operations", ops)

\* {"error": ..., "dtype": str(df[column].dtype)}
DtypeError(col) ==
    ObsWith("validation_error", ShortLen, "dtype", <<ColType[col]>>)

\* The handler a tool body is not wrapped in.
TryExcept_reraises(body) == body

\* try: <body> except Exception as e: return json.dumps({"error": str(e)})
TryExcept(body) ==
    IF body.raised THEN Obs("exception_error", ShortLen) ELSE body

get_data_sample_body(c) ==
    LET df == get_df IN
    IF df.raised THEN df ELSE
    LET fd == IF c.a2 # "None" THEN df_query(df.val, c.a2) ELSE df IN
    IF fd.raised THEN fd ELSE DataResult(fd.val)

get_data_sample(c) == TryExcept(get_data_sample_body(c))

query_data_body(c) ==
    LET df == get_df IN
    IF df.raised THEN df ELSE
    LET fd == df_query(df.val, c.a1) IN
    IF fd.raised THEN fd ELSE DataResult(fd.val)

query_data(c) == TryExcept(query_data_body(c))

\* pandas reductions: text columns cannot be summed, averaged or converted
\* by float(); count always works.
Reduce(col, operation) ==
    IF ColType[col] = "numeric" \/ operation = "count"
      THEN Obs("result", ShortLen)
      ELSE Raise("TypeError")

\* The aggregate written as float(result_value), without the pd.notna test:
\* a missing result is serialised as NaN, not as null.
AggregateValue_no_nan_check(df, col, operation) ==
    LET n == df.rows
        missing == CASE operation \in {"count", "sum"} -> FALSE
                     [] operation = "std" -> n <= 1
                     [] OTHER -> n = 0
        value == IF missing THEN "NaN" ELSE "number"
    IN CASE operation = "count" -> Ok("number")
         [] operation # "count" /\ ColType[col] = "numeric" -> Ok(value)
         [] operation # "count" /\ ColType[col] = "text" ->
               IF n = 0 THEN Ok(value) ELSE Raise("TypeError")
         [] OTHER ->
               IF operation # "sum" /\ missing THEN Ok(value)
                                              ELSE Raise("TypeError")

\* operations_map[operation]() on one column, then
\* `float(result_value) if pd.notna(result_value) else None`.
\* Numeric column: count and sum give a number for any row set; mean, median,
\* min and max give NaN over no rows; std (ddof=1) gives NaN over fewer than
\* two rows.  Text column: over no rows as the numeric one, otherwise the
\* reduction or float() raises.  Datetime column: sum raises; the others give
\* NaT where the numeric one gives NaN, and a Timestamp or Timedelta, which
\* float() rejects, otherwise.
AggregateValue(df, col, operation) ==
    LET n == df.rows
        missing == CASE operation \in {"count", "sum"} -> FALSE
                     [] operation = "std" -> n <= 1
                     [] OTHER -> n = 0
        value == IF missing THEN "null" ELSE "number"
    IN CASE operation = "count" -> Ok("number")
         [] operation # "count" /\ ColType[col] = "numeric" -> Ok(value)
         [] operation # "count" /\ ColType[col] = "text" ->
               IF n = 0 THEN Ok(value) ELSE Raise("TypeError")
         [] OTHER ->
               IF operation # "sum" /\ missing THEN Ok(value)
                                              ELSE Raise("TypeError")

\* {"column": ..., "operation": ..., "result": <float or None>, ...}
AggregateResult(df, col, operation) ==
    LET v == AggregateValue(df, col, operation)
    IN IF v.raised THEN v ELSE ObsWith("result", ShortLen, "result", <<v.val>>)

aggregate_data_body(c) ==
    LET df == get_df IN
    IF df.raised THEN df ELSE
    LET fd == IF c.a3 # "None" THEN df_query(df.val, c.a3) ELSE df IN
    IF fd.raised THEN fd ELSE
    IF c.a1 \notin Columns THEN ColumnError(fd.val) ELSE
    IF c.a2 \notin AggOps THEN OperationError(AggOpList) ELSE
    AggregateResult(fd.val, c.a1, c.a2)

aggregate_data(c) == TryExcept(aggregate_data_body(c))

group_by_analysis_body(c) ==
    LET df == get_df IN
    IF df.raised THEN df ELSE
    IF c.a1 \notin Columns THEN ColumnError(df.val) ELSE
    IF c.a2 \notin Columns THEN ColumnError(df.val) ELSE
    IF c.a3 \notin GroupOps THEN OperationError(GroupOpList) ELSE
    LET g == Reduce(c.a2, c.a3) IN
    IF g.raised THEN g ELSE DataResult(df.val)

group_by_analysis(c) == TryExcept(group_by_analysis_body(c))

\* vector_store_manager.query_metadata as the tools see it: ValueError when
\* the store is absent or similarity_search fails, else the documents.
retrieve(sim) ==
    IF QId \notin DOMAIN stores \/ sim = "ValueError"
      THEN Raise("ValueError")
      ELSE Ok(sim)

\* get_column_info and query_schema: `if not docs: return "No ... found."`,
\* the joined page contents otherwise, `except: return f"Error ...: {e}"`.
schema_lookup(sim) ==
    LET docs == retrieve(sim) IN
    IF docs.raised THEN Obs("retrieval_error", ShortLen) ELSE
    IF docs.val = "no_docs" THEN Obs("nothing_found", ShortLen)
    ELSE Obs("docs", ObsLimit + 1)

get_column_info(c, sim) == schema_lookup(sim)

query_schema(c, sim) == schema_lookup(sim)

calculate_correlation_body(c) ==
    LET df == get_df IN
    IF df.raised THEN df ELSE
    IF c.a1 \notin Columns THEN ColumnError(df.val) ELSE
    IF c.a2 \notin Columns THEN ColumnError(df.val) ELSE
    IF ColType[c.a1] # "numeric" THEN DtypeError(c.a1) ELSE
    IF ColType[c.a2] # "numeric" THEN DtypeError(c.a2) ELSE
    Obs("result", ShortLen)

calculate_correlation(c) == TryExcept(calculate_correlation_body(c))

\* pd.to_datetime raises on the text column, df.groupby on an unknown
\* column (KeyError), iloc[0] on an empty frame (IndexError), and the
\* subtraction on text values (TypeError).
analyze_trend_body(c) ==
    LET df == get_df IN
    IF df.raised THEN df ELSE
    IF c.a1 \notin Columns THEN ColumnError(df.val) ELSE
    IF c.a2 \notin Columns THEN ColumnError(df.val) ELSE
    IF ColType[c.a1] = "text" THEN Raise("DateParseError") ELSE
    IF c.a3 # "None" /\ c.a3 \notin Columns THEN Raise("KeyError") ELSE
    IF c.a3 = "None" /\ df.val.rows = 0 THEN Raise("IndexError") ELSE
    IF df.val.rows > 0 /\ ColType[c.a2] = "text" THEN Raise("TypeError") ELSE
    Obs("result", ShortLen)

analyze_trend(c) == TryExcept(analyze_trend_body(c))

ToolNames == {"get_data_sample", "query_data", "aggregate_data",
              "group_by_analysis", "get_column_info", "query_schema",
              "calculate_correlation", "analyze_trend"}

\* The tool the executor looks up by name and runs.
RunTool(c, sim) ==
    CASE c.tool = "get_data_sample" -> get_data_sample(c)
      [] c.tool = "query_data" -> query_data(c)
      [] c.tool = "aggregate_data" -> aggregate_data(c)
      [] c.tool = "group_by_analysis" -> group_by_analysis(c)
      [] c.tool = "get_column_info" -> get_column_info(c, sim)
      [] c.tool = "query_schema" -> query_schema(c, sim)
      [] c.tool = "calculate_correlation" -> calculate_correlation(c)
      [] c.tool = "analyze_trend" -> analyze_trend(c)
      [] OTHER -> Obs("invalid_tool", ShortLen)

\* Every argument combination of the eight tools.
ToolCalls ==
    {Call("get_data_sample", "5", f, "-") : f \in Filters \cup {"None"}}
    \cup {Call("query_data", f, "-", "-") : f \in Filters}
    \cup {Call("aggregate_data", col, o, f) :
            col \in ColArgs, o \in OpArgs, f \in Filters \cup {"None"}}
    \cup {Call("group_by_analysis", g, col, o) :
            g \in ColArgs, col \in ColArgs, o \in OpArgs}
    \cup {Call("get_column_info", col, "-", "-") : col \in ColArgs \cup {"None"}}
    \cup {Call("query_schema", "which columns hold sales?", "-", "-")}
    \cup {Call("calculate_correlation", c1, c2, "-") :
            c1 \in ColArgs, c2 \in ColArgs}
    \cup {Call("analyze_trend", d, col, g) :
            d \in ColArgs, col \in ColArgs, g \in ColArgs \cup {"None"}}

\* A concurrent delete route removes the tabular entry ...
env_delete_dataset ==
    /\ QId \in DOMAIN datasets
    /\ datasets' = DictDel(datasets, QId)
    /\ metadata' = DictDel(metadata, QId)
    /\ UNCHANGED <<data_lock, stores, store_lock, threadVars, routeVars, agentVars, fnVars, logVars,
                   heapVars>>

\* ... and then the index store.
env_delete_store ==
    /\ QId \notin DOMAIN datasets
    /\ QId \in DOMAIN stores
    /\ stores' = DictDel(stores, QId)
    /\ UNCHANGED <<datasets, metadata, data_lock, store_lock, threadVars,
                   routeVars, agentVars, fnVars, logVars, heapVars>>

\* One tool invocation: the body runs against the stores as they are now.
tool_act ==
    /\ q_pc = "act"
    /\ \E sim \in {"docs", "no_docs", "ValueError"} :
          outcome' = RunTool(pending, sim)
    /\ executed' = Append(executed, pending)
    /\ q_pc' = "observe"
    /\ UNCHANGED <<storeVars, threadVars, routeVars, fnVars, logVars,
                   heapVars, rag_context, llm_out,
                   pending, iterations, intermediate_steps, response, ext_failed>>

\* ============================================================= agent loop
\* settings.max_iterations, the AgentExecutor step budget (default 10).
max_iterations == 3

BudgetAnswer == "Agent stopped due to iteration limit or time limit."

\* The invocations the reasoning capability picks from in a query run.
AgentCalls ==
    {Call("aggregate_data", "sales", "sum", "region == 'North'"),
     Call("aggregate_data", "nonexistent_column", "sum", "None"),
     Call("get_data_sample", "5", "None", "-"),
     Call("query_schema", "which columns hold sales?", "-", "-"),
     Call("analyze_trend", "date", "sales", "None"),
     Call("no_such_tool", "-", "-", "-")}

Min(a, b) == IF a <= b THEN a ELSE b

\* An observation recorded without the [:500] slice.
Truncate_keeps_all(o) == o

\* str(observation)[:500]
Truncate(o) == [o EXCEPT !.len = Min(o.len, ObsLimit)]

\* for i, (action, observation) in enumerate(intermediate_steps, 1): ...
ExecutionSteps(steps) ==
    [i \in 1..Len(steps) |->
        [step |-> i,
         action |-> steps[i].action.tool,
         action_input |-> steps[i].action,
         observation |-> Truncate(steps[i].observation)]]

\* The dictionary query() returns from its try block.
SuccessResponse(output, steps) ==
    [success |-> TRUE, answer |-> output,
     execution_steps |-> ExecutionSteps(steps), error |-> "none"]

\* A failure answer that leaves out the exception text.
FailureResponse_without_text(e) ==
    [success |-> FALSE, answer |-> <<"Error processing query">>,
     execution_steps |-> <<>>, error |-> e]

\* The dictionary query() returns from `except Exception as e`; the answer
\* is f"Error processing query: {str(e)}", kept as its two pieces.
FailureResponse(e) ==
    [success |-> FALSE, answer |-> <<"Error processing query: ", e>>,
     execution_steps |-> <<>>, error |-> e]

\* df = data_store.get_dataframe(dataset_id, sheet_name)
query_get_dataframe ==
    /\ q_pc = "get_df"
    /\ IF get_df.raised
         THEN /\ response' = FailureResponse(get_df.val.kind)
              /\ q_pc' = "done"
         ELSE /\ q_pc' = "rag"
              /\ UNCHANGED response
    /\ UNCHANGED <<storeVars, threadVars, routeVars, fnVars, logVars,
                   heapVars, rag_context, llm_out,
                   pending, outcome, iterations, intermediate_steps, executed,
                   ext_failed>>

\* rag_context = self._get_rag_context(...): every exception of
\* query_metadata is caught and turned into the returned string.  The sample
\* rows, the tools and the prompt are then built; AgentExecutor starts.
query_rag_context ==
    /\ q_pc = "rag"
    /\ \E sim \in {"docs", "no_docs", "ValueError"} :
          LET docs == retrieve(sim) IN
          /\ rag_context' =
                IF docs.raised THEN "Error retrieving context"
                ELSE IF docs.val = "no_docs" THEN "No relevant metadata found."
                ELSE "context"
          /\ ext_failed' = docs.raised
    /\ q_pc' = "think"
    /\ UNCHANGED <<storeVars, threadVars, routeVars, fnVars, logVars,
                   heapVars, llm_out, pending, outcome,
                   iterations, intermediate_steps, executed, response>>

\* A budget test that lets one step too many through.
ShouldContinue_off_by_one(n) == n <= max_iterations

\* AgentExecutor: while self._should_continue(iterations, time_elapsed)
ShouldContinue(n) == n < max_iterations

\* The loop is over its budget: the forced stop returns the fixed output.
agent_budget ==
    /\ q_pc = "think"
    /\ ~ShouldContinue(iterations)
    /\ response' = SuccessResponse(BudgetAnswer, intermediate_steps)
    /\ q_pc' = "done"
    /\ UNCHANGED <<storeVars, threadVars, routeVars, fnVars, logVars,
                   heapVars, rag_context, llm_out,
                   pending, outcome, iterations, intermediate_steps, executed,
                   ext_failed>>

\* What the executor does with an unparseable reply when
\* handle_parsing_errors is off: the parser's exception leaves invoke().
ParseError_raises == Raise("OutputParserException")

\* handle_parsing_errors=True: the reply becomes the observation of an
\* "_Exception" pseudo-action.
ParseError == Obs("parse_retry", ShortLen)

\* One Think step: the reasoning capability answers with an action, a final
\* answer or unparseable text, or the call fails.
agent_think ==
    /\ q_pc = "think"
    /\ ShouldContinue(iterations)
    /\ \E reply \in {"action", "final", "malformed", "failure"} :
          /\ llm_out' = reply
          /\ CASE reply = "failure" ->
                    /\ ext_failed' = TRUE
                    /\ response' = FailureResponse("LLMError")
                    /\ q_pc' = "done"
                    /\ UNCHANGED <<pending, outcome, executed>>
               [] reply = "final" ->
                    /\ response' = SuccessResponse("final answer", intermediate_steps)
                    /\ q_pc' = "done"
                    /\ UNCHANGED <<pending, outcome, executed, ext_failed>>
               [] reply = "malformed" ->
                    /\ pending' = Call("_Exception", "Invalid or incomplete response", "-", "-")
                    /\ outcome' = ParseError
                    /\ executed' = Append(executed, pending')
                    /\ q_pc' = "observe"
                    /\ UNCHANGED <<response, ext_failed>>
               [] OTHER ->
                    /\ \E c \in AgentCalls : pending' = c
                    /\ q_pc' = "act"
                    /\ UNCHANGED <<outcome, executed, response, ext_failed>>
    /\ UNCHANGED <<storeVars, threadVars, routeVars, fnVars, logVars,
                   heapVars, rag_context, iterations,
                   intermediate_steps>>

\* Observe: the (action, observation) pair is appended and the iteration
\* counted; an exception of the step leaves invoke() and reaches the
\* `except Exception` of query().
agent_observe ==
    /\ q_pc = "observe"
    /\ IF outcome.raised
         THEN /\ response' = FailureResponse(outcome.val.kind)
              /\ q_pc' = "done"
              /\ UNCHANGED <<intermediate_steps, iterations>>
         ELSE /\ intermediate_steps' = Append(intermediate_steps,
                     [action |-> pending, observation |-> outcome.val])
              /\ iterations' = iterations + 1
              /\ q_pc' = "think"
              /\ UNCHANGED response
    /\ UNCHANGED <<storeVars, threadVars, routeVars, fnVars, logVars,
                   heapVars, rag_context, llm_out,
                   pending, outcome, executed, ext_failed>>

\* ====================================================== callers of DataStore
\* The workbooks callers pass to add_dataset: an empty dict of sheets, and
\* one with sheet "Summary" inserted before sheet "Sales".
CallerWorkbooks ==
    <<DictObj(<<>>),
      DictObj(<<Item("Summary", 3), Item("Sales", 4)>>),
      TableObj("Summary", 1),
      TableObj("Sales", 2)>>

WorkbookRefs == {r \in DOMAIN CallerWorkbooks : CallerWorkbooks[r].kind = "dict"}

\* Sheet-name arguments: omitted, empty, two that exist, one that does not.
SheetArgs == {NoneArg, "", "Sales", "Summary", "Missing"}

\* A thread calls one DataStore method, or runs one agent tool, whose get_df()
\* is data_store.get_dataframe(dataset_id, sheet_name).  Calls are taken one
\* after another here: what a call returns and changes is the subject, the
\* interleaving of the locked method bodies is DataStoreSpec's.
SheetCall(t) ==
    /\ \A u \in Threads : pc[u] = "idle"
    /\ \E m \in {"add_dataset", "delete_dataset", "get_dataframe",
                 "get_all_sheets", "get_sheet_names", "tool"},
          i \in Ids, w \in WorkbookRefs, n \in SheetArgs :
          /\ op' = [op EXCEPT ![t] = m]
          /\ arg' = [arg EXCEPT ![t] =
                       [id |-> i,
                        val |-> CASE m = "add_dataset" -> w
                                  [] m \in {"get_dataframe", "tool"} -> n
                                  [] OTHER -> 0]]
          /\ pc' = [pc EXCEPT ![t] =
                       CASE m = "add_dataset" -> "ad_lock"
                         [] m = "delete_dataset" -> "dd_lock"
                         [] m = "get_all_sheets" -> "ga_call"
                         [] m = "get_sheet_names" -> "gs_call"
                         [] OTHER -> "gd_call"]
          /\ stack' = [stack EXCEPT ![t] =
                         IF m = "tool" THEN <<"tool_df", "done">>
                                       ELSE <<"done">>]
    /\ UNCHANGED <<storeVars, ret, routeVars, agentVars, fnVars, logVars, heapVars>>

\* The body of a tool once get_df() has returned.  A ValueError of get_df is
\* caught by the tool's `except Exception`.  analyze_trend, when its column
\* arguments pass validation, does df_copy = df.copy() and assigns
\* df_copy[date_column]; the other tools only derive new frames from df.
tool_run(t) ==
    /\ pc[t] = "tool_df"
    /\ IF ret[t] # "ok"
         THEN /\ ReturnTo(t, "error")
              /\ UNCHANGED heapVars
         ELSE \E name \in ToolNames, valid \in BOOLEAN :
                 /\ ReturnTo(t, name)
                 /\ IF name = "analyze_trend" /\ valid
                      THEN LET c == df_copy(heap, held[t][1].ref)
                           IN /\ heap' = [c.heap EXCEPT ![c.ref].edited = TRUE]
                              /\ held' = [held EXCEPT ![t] =
                                            Append(@, Item("df_copy", c.ref))]
                      ELSE UNCHANGED heapVars
    /\ UNCHANGED <<storeVars, op, arg, routeVars, agentVars, fnVars, logVars>>

\* The caller of get_dataframe or get_all_sheets changes a table it was
\* handed in place: it drops every row, or assigns to a column.
caller_mutate(t) ==
    /\ pc[t] = "done"
    /\ op[t] \in {"get_dataframe", "get_all_sheets"}
    /\ ret[t] = "ok"
    /\ \E k \in 1..Len(held[t]), change \in {"drop_rows", "set_column"} :
          LET r == held[t][k].ref
              new == IF change = "drop_rows"
                       THEN [heap[r] EXCEPT !.rows = 0]
                       ELSE [heap[r] EXCEPT !.edited = TRUE]
          IN /\ new # heap[r]
             /\ heap' = [heap EXCEPT ![r] = new]
    /\ UNCHANGED <<storeVars, threadVars, routeVars, agentVars, fnVars, logVars, held>>

\* No pure function is under study.
FnIdle ==
    /\ fn_input = "none"
    /\ fn_output = "none"
    /\ fn_done = FALSE

ThreadsIdle ==
    /\ pc = [t \in Threads |-> "idle"]
    /\ op = [t \in Threads |-> "none"]
    /\ arg = [t \in Threads |-> NoArg]
    /\ ret = [t \in Threads |-> "none"]
    /\ stack = [t \in Threads |-> <<>>]
    /\ attempted = [t \in Threads |-> {}]
    /\ held = [t \in Threads |-> <<>>]
    /\ warned = [t \in Threads |-> FALSE]
    /\ published = {}
    /\ generated = {}

ThreadInit == ThreadsIdle /\ FnIdle

StoreInit ==
    /\ datasets = EmptyDict
    /\ metadata = EmptyDict
    /\ data_lock = NoThread
    /\ stores = EmptyDict
    /\ store_lock = NoThread
    /\ heap = ParsedWorkbooks

NoResponse == [success |-> FALSE, answer |-> "none", execution_steps |-> <<>>,
               error |-> "none"]

AgentIdle ==
    /\ q_pc = "off"
    /\ rag_context = "none"
    /\ llm_out = "none"
    /\ pending = NoCall
    /\ outcome = NoOutcome
    /\ iterations = 0
    /\ intermediate_steps = <<>>
    /\ executed = <<>>
    /\ response = NoResponse
    /\ ext_failed = FALSE

DataStoreInit == StoreInit /\ ThreadInit /\ AgentIdle

DataStoreNext ==
    \E t \in Threads :
        \/ DataStoreCall(t)
        \/ add_dataset_lock(t)
        \/ add_dataset_sheets(t)
        \/ add_dataset_meta(t)
        \/ delete_dataset_lock(t)
        \/ delete_dataset_sheets(t)
        \/ delete_dataset_meta(t)
        \/ dataset_exists(t)
        \/ Finish(t)

DataStoreSpec == DataStoreInit /\ [][DataStoreNext]_vars

\* C1: whenever no thread is inside a DataStore method body (the lock is
\* free, which is when any caller can observe the store), the dataset ids
\* with stored sheets are exactly the dataset ids with a metadata record.
C1_SheetsAndMetadataTogether ==
    data_lock = NoThread => DOMAIN datasets = DOMAIN metadata

\* Two threads have finished an add and a delete and a dataset is stored.
C1_Witness ==
    /\ \E t \in Threads : pc[t] = "done" /\ op[t] = "delete_dataset" /\ ret[t] = "ok"
    /\ \E t \in Threads : pc[t] = "done" /\ op[t] = "add_dataset"
    /\ DOMAIN datasets # {}
    /\ data_lock = NoThread

VectorStoreInit == StoreInit /\ ThreadInit /\ AgentIdle

VectorStoreNext ==
    \E t \in Threads :
        \/ VectorStoreCall(t)
        \/ create_store_lock(t)
        \/ create_store_check(t)
        \/ create_store_build(t)
        \/ delete_store_lock(t)
        \/ delete_store_body(t)
        \/ store_exists(t)
        \/ query_metadata_lock(t)
        \/ query_metadata_body(t)
        \/ Finish(t)

VectorStoreSpec == VectorStoreInit /\ [][VectorStoreNext]_vars

\* C3: a create_store call that finds an existing store for its dataset id
\* goes on to return: it is never left waiting for the manager's lock while
\* holding that lock itself (a wait that can never end).
C3_ReplaceNeverSelfBlocks ==
    \A t \in Threads :
        ~(op[t] = "create_store" /\ pc[t] = "ds_lock" /\ store_lock = t)

\* C13: query_metadata and delete_store on a dataset id that has no index
\* store raise ValueError (NotFound) and leave the stores as they were;
\* delete_store on an id that has a store removes that id and nothing else.
C13_MissingStoreIsNotFound ==
    [][\A t \in Threads :
          /\ (pc[t] = "qm_body" /\ pc'[t] # "qm_body"
              /\ arg[t].id \notin DOMAIN stores)
                => (ret'[t] = "ValueError" /\ stores' = stores)
          /\ (pc[t] = "ds_body" /\ pc'[t] # "ds_body")
                => IF arg[t].id \notin DOMAIN stores
                     THEN ret'[t] = "ValueError" /\ stores' = stores
                     ELSE /\ ret'[t] = "ok"
                          /\ DOMAIN stores' = DOMAIN stores \ {arg[t].id}
                          /\ \A i \in DOMAIN stores' : stores'[i] = stores[i]
      ]_vars

\* One delete_store has removed a store and another has found none.
C13_Witness ==
    \E t, u \in Threads :
        /\ op[t] = "delete_store" /\ pc[t] = "done" /\ ret[t] = "ok"
        /\ op[u] = "delete_store" /\ pc[u] = "done" /\ ret[u] = "ValueError"
        /\ stores # EmptyDict

\* C12: a read never waits for a concurrent read: while a thread is inside
\* query_metadata on a dataset that has a store (waiting for the similarity
\* search of the external embedding service), any other thread about to
\* query or check the index, for any dataset, or about to create or delete
\* the store of another dataset, can take its next step.
C12_ReadsNeverBlock ==
    \A t, u \in Threads :
        ( /\ t # u
          /\ pc[t] = "qm_body"
          /\ arg[t].id \in DOMAIN stores
          /\ \/ pc[u] \in {"qm_lock", "se_call"}
             \/ pc[u] \in {"cs_lock", "ds_lock"} /\ arg[u].id # arg[t].id )
        => ENABLED ( \/ query_metadata_lock(u)
                     \/ store_exists(u)
                     \/ create_store_lock(u)
                     \/ delete_store_lock(u) )

Init == StoreInit /\ ThreadInit /\ AgentIdle

Next ==
    \E t \in Threads :
        \/ upload_excel_start(t)
        \/ upload_excel_added(t)
        \/ upload_excel_created(t)
        \/ route_delete_start(t)
        \/ route_delete_checked(t)
        \/ route_delete_tabular_done(t)
        \/ route_delete_store_checked(t)
        \/ route_delete_index_done(t)
        \/ route_query_start(t)
        \/ route_query_checked(t)
        \/ route_query_sheets(t)
        \/ route_query_agent(t)
        \/ get_sheet_names(t)
        \/ add_dataset_lock(t)
        \/ add_dataset_sheets(t)
        \/ add_dataset_meta(t)
        \/ delete_dataset_lock(t)
        \/ delete_dataset_sheets(t)
        \/ delete_dataset_meta(t)
        \/ dataset_exists(t)
        \/ create_store_lock(t)
        \/ create_store_check(t)
        \/ create_store_build(t)
        \/ delete_store_lock(t)
        \/ delete_store_body(t)
        \/ store_exists(t)
        \/ Finish(t)

Spec == Init /\ [][Next]_vars

\* C2: whenever an upload has finished, with success or with an error, its
\* dataset id is in the Tabular Store exactly when it has an index store.
C2_IngestionCreatesBoth ==
    \A t \in Threads :
        (pc[t] = "done" /\ op[t] = "upload_excel")
            => ((arg[t].id \in DOMAIN datasets) <=> (arg[t].id \in DOMAIN stores))

C11_NoQueryOnHalfDataset ==
    \A t \in Threads :
        (op[t] = "route_query" /\ pc[t] = "qr_begin")
            => ((arg[t].id \in DOMAIN datasets) <=> (arg[t].id \in DOMAIN stores))

\* An uploaded dataset with its index store, as a finished upload leaves it.
UploadedInit ==
    /\ \E v \in Vals :
          /\ datasets = DictSet(EmptyDict, QId, v)
          /\ metadata = DictSet(EmptyDict, QId, v)
          /\ stores = DictSet(EmptyDict, QId, v)
    /\ data_lock = NoThread
    /\ store_lock = NoThread
    /\ heap = ParsedWorkbooks

ToolInit ==
    /\ UploadedInit
    /\ ThreadInit
    /\ q_pc = "act"
    /\ pending \in ToolCalls
    /\ rag_context = "none"
    /\ llm_out = "action"
    /\ outcome = NoOutcome
    /\ iterations = 0
    /\ intermediate_steps = <<>>
    /\ executed = <<>>
    /\ response = NoResponse
    /\ ext_failed = FALSE

ToolNext ==
    \/ tool_act
    \/ env_delete_dataset
    \/ env_delete_store

ToolSpec == ToolInit /\ [][ToolNext]_vars

ObsKinds == {"result", "validation_error", "exception_error", "docs",
             "nothing_found", "retrieval_error"}

\* C8: whichever of the eight actions is invoked, with whatever arguments
\* and whether or not the dataset or its index is still there, the action
\* returns an observation string and raises nothing.
C8_ActionsReturnObservations ==
    q_pc = "observe" =>
        /\ ~outcome.raised
        /\ outcome.val.kind \in ObsKinds

\* A trend over an unknown group column of a sheet and an aggregate on a
\* dataset deleted in the meantime have both come back as observations.
C8_Witness ==
    /\ q_pc = "observe"
    /\ pending.tool \in {"analyze_trend", "aggregate_data"}
    /\ pending.a3 = "nonexistent_column" \/ QId \notin DOMAIN datasets
    /\ outcome.val.kind = "exception_error"

\* The invocation names a column the sheet does not have, as a column
\* argument or inside its filter expression.
NamesUnknownColumn(c) ==
    CASE c.tool = "get_data_sample" -> c.a2 = "nonexistent_column > 1"
      [] c.tool = "query_data" -> c.a1 = "nonexistent_column > 1"
      [] c.tool = "aggregate_data" ->
            c.a1 \notin Columns \/ c.a3 = "nonexistent_column > 1"
      [] c.tool \in {"group_by_analysis", "calculate_correlation"} ->
            c.a1 \notin Columns \/ c.a2 \notin Columns
      [] c.tool = "analyze_trend" ->
            \/ c.a1 \notin Columns
            \/ c.a2 \notin Columns
            \/ (c.a3 # "None" /\ c.a3 \notin Columns)
      [] OTHER -> FALSE

\* The rows an aggregate runs over, when its filter (if any) evaluates.
FilterEvaluates(c) == c.a3 \in {"None", "region == 'North'", "region == 'Mars'"}
RowsAnalyzed(c) ==
    IF c.a3 = "region == 'Mars'" THEN 0 ELSE RowsOf(datasets[QId])

\* C18: an action invoked on a stored sheet with a column name the sheet
\* does not have, as a column argument (aggregate, group-aggregate,
\* correlate, trend and trend's group column) or inside a filter expression
\* (sample, query, aggregate), returns a structured error that lists the
\* sheet's columns.
C18_ColumnNamesValidated ==
    (q_pc = "observe" /\ QId \in DOMAIN datasets /\ NamesUnknownColumn(pending))
        => /\ outcome.val.kind = "validation_error"
           /\ outcome.val.key = "available_columns"
           /\ outcome.val.list = ColumnList

C20_EmptyAggregates ==
    (q_pc = "observe" /\ QId \in DOMAIN datasets
     /\ pending.tool = "aggregate_data" /\ pending.a1 \in Columns
     /\ FilterEvaluates(pending)) =>
        /\ (pending.a2 = "mean" /\ RowsAnalyzed(pending) = 0) =>
              /\ outcome.val.kind = "result"
              /\ outcome.val.list = <<"null">>
        /\ (pending.a2 = "stdev" /\ RowsAnalyzed(pending) = 1) =>
              /\ outcome.val.kind = "result"
              /\ outcome.val.list = <<"null">>

\* C20 amended: the standard deviation is the operation "std", and it gives
\* null over one row of a numeric column.
C20_EmptyAggregatesStd ==
    (q_pc = "observe" /\ QId \in DOMAIN datasets
     /\ pending.tool = "aggregate_data" /\ pending.a1 \in Columns
     /\ FilterEvaluates(pending)) =>
        /\ (pending.a2 = "mean" /\ RowsAnalyzed(pending) = 0) =>
              /\ outcome.val.kind = "result"
              /\ outcome.val.list = <<"null">>
        /\ (pending.a2 = "std" /\ RowsAnalyzed(pending) = 1
            /\ ColType[pending.a1] = "numeric") =>
              /\ outcome.val.kind = "result"
              /\ outcome.val.list = <<"null">>

\* The std of the one row of a numeric column has come back as null.
C20_Witness ==
    /\ q_pc = "observe"
    /\ QId \in DOMAIN datasets
    /\ pending = Call("aggregate_data", "sales", "std", "None")
    /\ RowsAnalyzed(pending) = 1
    /\ outcome.val.list = <<"null">>

AgentInit ==
    /\ UploadedInit
    /\ ThreadInit
    /\ q_pc = "get_df"
    /\ rag_context = "none"
    /\ llm_out = "none"
    /\ pending = NoCall
    /\ outcome = NoOutcome
    /\ iterations = 0
    /\ intermediate_steps = <<>>
    /\ executed = <<>>
    /\ response = NoResponse
    /\ ext_failed = FALSE

AgentNext ==
    \/ query_get_dataframe
    \/ query_rag_context
    \/ agent_budget
    \/ agent_think
    \/ tool_act
    \/ agent_observe
    \/ env_delete_dataset
    \/ env_delete_store

AgentSpec == AgentInit /\ [][AgentNext]_vars

\* The query itself (not its environment) can take a step.
AgentCanStep ==
    ENABLED (query_get_dataframe \/ query_rag_context \/ agent_budget
             \/ agent_think \/ tool_act \/ agent_observe)

\* C6: the loop never runs more than max_iterations steps and is never stuck
\* before it has returned, and a query that ended although the reasoning
\* capability's last reply was not a final answer (and no call failed)
\* returned successfully with exactly max_iterations recorded steps and the
\* explicit budget-exhausted answer.
C6_BudgetTermination ==
    /\ iterations <= max_iterations
    /\ Len(intermediate_steps) <= max_iterations
    /\ q_pc # "done" => AgentCanStep
    /\ (q_pc = "done" /\ llm_out \in {"action", "malformed"}) =>
          /\ response.success
          /\ Len(response.execution_steps) = max_iterations
          /\ response.answer = BudgetAnswer

\* A query has run out of budget.
C6_Witness ==
    /\ q_pc = "done"
    /\ llm_out = "action"
    /\ response.answer = BudgetAnswer
    /\ Len(response.execution_steps) = max_iterations

IsParseStep(st) == st.action.tool = "_Exception"

\* C7: an unparseable reply becomes an observation and the loop goes on (it
\* is never the reason a query fails); every recorded step, the retries
\* included, has used one unit of the budget, so the steps never exceed
\* max_iterations.
C7_MalformedIsRecoverable ==
    /\ (llm_out = "malformed" /\ q_pc \in {"observe", "think"}) =>
          (~outcome.raised /\ outcome.val.kind = "parse_retry")
    /\ (q_pc = "done" /\ llm_out = "malformed") => response.success
    /\ iterations = Len(intermediate_steps)
    /\ Len(intermediate_steps) <= max_iterations

\* Every reply was unparseable and the query still ended, out of budget.
C7_Witness ==
    /\ q_pc = "done"
    /\ response.success
    /\ Len(intermediate_steps) = max_iterations
    /\ \A i \in 1..Len(intermediate_steps) : IsParseStep(intermediate_steps[i])

\* C9: the trace of a successful query has one entry per executed action,
\* in execution order, numbered 1..n, each observation at most 500 long.
C9_TraceIsOrderedAndBounded ==
    (q_pc = "done" /\ response.success) =>
        /\ Len(response.execution_steps) = Len(executed)
        /\ \A i \in 1..Len(response.execution_steps) :
              /\ response.execution_steps[i].step = i
              /\ response.execution_steps[i].action = executed[i].tool
              /\ response.execution_steps[i].action_input = executed[i]
              /\ response.execution_steps[i].observation.len <= ObsLimit

\* A successful query with at least two steps, one of them with an
\* observation longer than the limit.
C9_Witness ==
    /\ q_pc = "done"
    /\ response.success
    /\ Len(response.execution_steps) >= 2
    /\ \E i \in 1..Len(intermediate_steps) :
          intermediate_steps[i].observation.len > ObsLimit

\* C10: a query during which the similarity capability failed or the index
\* store was absent at context assembly, or the reasoning capability
\* failed, ends with success=false and an error message.
C10_ExternalFailureReported ==
    (q_pc = "done" /\ ext_failed) =>
        (~response.success /\ response.error # "none")

\* ------------------------------------------------------------- SheetSpec
SheetInit ==
    /\ datasets = EmptyDict
    /\ metadata = EmptyDict
    /\ data_lock = NoThread
    /\ stores = EmptyDict
    /\ store_lock = NoThread
    /\ heap = CallerWorkbooks
    /\ ThreadInit
    /\ AgentIdle

SheetNext ==
    \E t \in Threads :
        \/ SheetCall(t)
        \/ add_dataset_lock(t)
        \/ add_dataset_sheets(t)
        \/ add_dataset_meta(t)
        \/ delete_dataset_lock(t)
        \/ delete_dataset_sheets(t)
        \/ delete_dataset_meta(t)
        \/ get_dataframe(t)
        \/ get_all_sheets(t)
        \/ get_sheet_names(t)
        \/ tool_run(t)
        \/ caller_mutate(t)
        \/ Finish(t)

SheetSpec == SheetInit /\ [][SheetNext]_vars

\* What a caller can read from the store now: the outcome of
\* get_dataframe(d, n) with the content of the frame it would copy, and the
\* content of every sheet get_all_sheets(d) would copy.
ReadResult(d, n) ==
    LET r == GetDataframe(heap, datasets, d, n)
    IN [status |-> r.status, names |-> r.names,
        table |-> IF r.status = "ok" THEN heap[r.src] ELSE DictObj(<<>>)]

AllSheetsResult(d) ==
    IF d \notin DOMAIN datasets
      THEN <<>>
      ELSE [k \in 1..Len(heap[datasets[d]].items) |->
              [name |-> heap[datasets[d]].items[k].name,
               table |-> heap[heap[datasets[d]].items[k].ref]]]

\* C14: get_dataframe(D, name) returns the sheet stored under name when D
\* and name are present, the first sheet in insertion order when name is
\* omitted, and in every other case (D absent, name given and not a key, D
\* without sheets) raises ValueError (NotFound), which for an absent sheet
\* lists exactly D's sheet names.
C14_GetDataframeContract ==
    [][\A t \in Threads :
          (pc[t] = "gd_call" /\ pc'[t] # "gd_call") =>
             LET id == arg[t].id
                 name == arg[t].val
                 present == id \in DOMAIN datasets
                 keys == IF present THEN Keys(heap, datasets[id]) ELSE <<>>
                 given == name # NoneArg
                 iskey == \E k \in 1..Len(keys) : keys[k] = name
             IN CASE present /\ given /\ iskey ->
                       /\ ret'[t] = "ok"
                       /\ heap'[held'[t][1].ref]
                             = heap[Lookup(heap, datasets[id], name)]
                  [] present /\ ~given /\ keys # <<>> ->
                       /\ ret'[t] = "ok"
                       /\ heap'[held'[t][1].ref]
                             = heap[Head(heap[datasets[id]].items).ref]
                  [] OTHER ->
                       /\ ret'[t] = "ValueError"
                       /\ (present /\ given) => held'[t] = NameList(keys)
      ]_vars

\* C15: a caller changing, in place, a table that get_dataframe or
\* get_all_sheets returned to it changes the result of no later get: for
\* every dataset and sheet-name argument the outcome and the rows and columns
\* of the table are the same after the change as before it.
C15_ReadsAreIndependentCopies ==
    [][(\E t \in Threads : caller_mutate(t)) =>
          \A d \in Ids :
             /\ AllSheetsResult(d)' = AllSheetsResult(d)
             /\ \A n \in SheetArgs : ReadResult(d, n)' = ReadResult(d, n)
      ]_vars

\* A caller holds a table it has emptied while the stored sheet it was
\* copied from still has its rows.
C15_Witness ==
    \E t \in Threads :
        /\ op[t] \in {"get_dataframe", "get_all_sheets"}
        /\ pc[t] = "done" /\ ret[t] = "ok"
        /\ arg[t].id \in DOMAIN datasets
        /\ \E k \in 1..Len(held[t]) :
              /\ heap[held[t][k].ref].rows = 0
              /\ heap[held[t][k].ref].edited
              /\ ReadResult(arg[t].id, held[t][k].name).status = "ok"
              /\ ReadResult(arg[t].id, held[t][k].name).table.rows > 0

StoredView ==
    [d \in DOMAIN datasets |->
        [sheets |-> AllSheetsResult(d),
         meta |-> IF d \in DOMAIN metadata THEN metadata[d] ELSE NoRef]]

\* C17: no step of a tool, from its invocation to its return, changes the
\* stored sheets or the metadata of any dataset.
C17_ActionsDoNotMutateStore ==
    [][\A t \in Threads :
          ((op[t] = "tool" \/ op'[t] = "tool") /\ pc'[t] # pc[t]) =>
              /\ StoredView' = StoredView
              /\ metadata' = metadata
      ]_vars

\* analyze_trend has assigned to a column of its working frame while the
\* stored sheet it read is untouched.
C17_Witness ==
    \E t \in Threads :
        /\ op[t] = "tool" /\ pc[t] = "done" /\ ret[t] = "analyze_trend"
        /\ Len(held[t]) = 2
        /\ heap[held[t][2].ref].edited
        /\ ReadResult(arg[t].id, arg[t].val).status = "ok"
        /\ ~ReadResult(arg[t].id, arg[t].val).table.edited

\* ============================================= group_by_analysis on rows
\* Sheets of at most MaxRows rows, each with a group key (a region, or NaN
\* for an empty cell) and a value in 0..MaxVal.
MaxRows == 3
MaxVal == 2
NaN == "<NaN>"
\* The regions, in the ascending order groupby sorts its groups in.
KeyOrder == <<"North", "South">>
RowSet == [key : {KeyOrder[k] : k \in DOMAIN KeyOrder} \cup {NaN}, val : 0..MaxVal]
Sheets == UNION {[1..n -> RowSet] : n \in 0..MaxRows}

\* The values of the rows with key k, in row order.
ValuesOf(rows, k) ==
    LET picked == SelectSeq(rows, LAMBDA r : r.key = k)
    IN [i \in 1..Len(picked) |-> picked[i].val]

RECURSIVE SumSeq(_)
SumSeq(vs) == IF vs = <<>> THEN 0 ELSE Head(vs) + SumSeq(Tail(vs))

\* Series.agg(operation) on the values of one group (never empty).
Agg(vs, operation) ==
    LET set == {vs[i] : i \in 1..Len(vs)}
    IN CASE operation = "sum" -> SumSeq(vs)
         [] operation = "count" -> Len(vs)
         [] operation = "min" -> CHOOSE m \in set : \A x \in set : m <= x
         [] OTHER -> CHOOSE m \in set : \A x \in set : m >= x

\* df.groupby(group_cols)[agg_column].agg(op).reset_index(): one row per key
\* that occurs, in ascending key order; groupby's default dropna=True leaves
\* out the rows whose key is NaN.
Grouped(rows, operation) ==
    LET present == SelectSeq(KeyOrder,
                             LAMBDA k : \E i \in 1..Len(rows) : rows[i].key = k)
    IN [i \in 1..Len(present) |->
          [key |-> present[i], val |-> Agg(ValuesOf(rows, present[i]), operation)]]

\* sort_values(by=agg_column, ascending=False)
RECURSIVE InsertDesc(_, _)
InsertDesc(sorted, r) ==
    IF sorted = <<>> THEN <<r>>
    ELSE IF Head(sorted).val >= r.val
      THEN <<Head(sorted)>> \o InsertDesc(Tail(sorted), r)
      ELSE <<r>> \o sorted

RECURSIVE SortDesc(_)
SortDesc(rs) ==
    IF rs = <<>> THEN <<>>
    ELSE InsertDesc(SortDesc(SubSeq(rs, 1, Len(rs) - 1)), rs[Len(rs)])

\* The "results" of a valid group_by_analysis call.
GroupByResults(rows, operation) == SortDesc(Grouped(rows, operation))

GroupInit ==
    /\ StoreInit
    /\ ThreadsIdle
    /\ AgentIdle
    /\ fn_input \in [rows : Sheets, operation : {"sum", "count", "min", "max"}]
    /\ fn_output = <<>>
    /\ fn_done = FALSE

group_by_analysis_results ==
    /\ ~fn_done
    /\ fn_output' = GroupByResults(fn_input.rows, fn_input.operation)
    /\ fn_done' = TRUE
    /\ UNCHANGED <<storeVars, threadVars, routeVars, agentVars, heapVars,
                   logVars, fn_input>>

GroupNext == group_by_analysis_results

GroupSpec == GroupInit /\ [][GroupNext]_vars

\* C21: the results of a valid group-aggregate call are in non-increasing
\* order of the aggregated value and have exactly one row for every distinct
\* group key of the input rows, the NaN key included, and no other row.
C21_GroupsSortedAndComplete ==
    fn_done =>
        LET rows == fn_input.rows
            keys == {rows[i].key : i \in 1..Len(rows)}
        IN /\ \A i \in 1..(Len(fn_output) - 1) :
                 fn_output[i].val >= fn_output[i + 1].val
           /\ \A k \in keys :
                 Cardinality({i \in 1..Len(fn_output) : fn_output[i].key = k}) = 1
           /\ Len(fn_output) = Cardinality(keys)

\* ================================================== analyze_trend on rows
\* Rows carry a date in 1..MaxDate as well, a sheet has at most MaxTrendRows
\* of them; the value column holds whole numbers, percentages are kept in
\* hundredths of a percent.
MaxDate == 2
MaxTrendRows == 2
TrendRowSet ==
    [date : 1..MaxDate,
     key : {KeyOrder[k] : k \in DOMAIN KeyOrder} \cup {NaN},
     val : 0..MaxVal]
TrendSheets == UNION {[1..n -> TrendRowSet] : n \in 0..MaxTrendRows}

\* The orders sort_values(by=date_column) may leave the rows in: ascending
\* by date, rows of equal date in any order (the default sort is not stable).
DateOrders(rows) ==
    {p \in Permutations(1..Len(rows)) :
        \A i \in 1..(Len(rows) - 1) : rows[p[i]].date <= rows[p[i + 1]].date}

\* round(float(pct_change), 2), in hundredths of a percent.
PercentChange(change, first_val) ==
    IF first_val # 0
      THEN (2 * change * 10000 + first_val) \div (2 * first_val)
      ELSE 0

Absent == "<absent>"
OverallKeys ==
    {"first_value", "last_value", "change", "percent_change", "trend_direction"}
GroupKeys == {"first_value", "last_value", "change", "percent_change"}

\* One block of the result, from rows already sorted by date (never empty).
TrendBlock(name, sorted, keys) ==
    LET first_val == sorted[1].val
        last_val == sorted[Len(sorted)].val
        change == last_val - first_val
    IN [name |-> name,
        keys |-> keys,
        first_value |-> first_val,
        last_value |-> last_val,
        change |-> change,
        percent_change |-> PercentChange(change, first_val),
        trend_direction |->
            IF "trend_direction" \in keys
              THEN (IF change > 0 THEN "increasing" ELSE "decreasing")
              ELSE Absent]

\* The result of a call with valid date and value columns, the rows taken in
\* the order `sorted`. iloc[0] on no rows raises IndexError, reported as an
\* error object; groupby leaves out the rows whose key is NaN.
TrendResult(sorted, grouped) ==
    IF grouped
      THEN LET present == SelectSeq(KeyOrder,
                   LAMBDA k : \E i \in 1..Len(sorted) : sorted[i].key = k)
           IN [kind |-> "grouped",
               blocks |-> [i \in 1..Len(present) |->
                   TrendBlock(present[i],
                              SelectSeq(sorted, LAMBDA r : r.key = present[i]),
                              GroupKeys)]]
      ELSE IF sorted = <<>>
        THEN [kind |-> "error", blocks |-> <<>>]
        ELSE [kind |-> "overall",
              blocks |-> <<TrendBlock("-", sorted, OverallKeys)>>]

TrendInit ==
    /\ StoreInit
    /\ ThreadsIdle
    /\ AgentIdle
    /\ fn_input \in [rows : TrendSheets, grouped : BOOLEAN]
    /\ fn_output = [kind |-> "none", blocks |-> <<>>]
    /\ fn_done = FALSE

analyze_trend_result ==
    /\ ~fn_done
    /\ \E p \in DateOrders(fn_input.rows) :
          fn_output' = TrendResult([i \in 1..Len(fn_input.rows) |-> fn_input.rows[p[i]]],
                                   fn_input.grouped)
    /\ fn_done' = TRUE
    /\ UNCHANGED <<storeVars, threadVars, routeVars, agentVars, heapVars,
                   logVars, fn_input>>

TrendNext == analyze_trend_result

TrendSpec == TrendInit /\ [][TrendNext]_vars

\* What a complete block says about the rows rs it was computed from.
CompleteBlock(b, rs) ==
    LET dates == {rs[i].date : i \in 1..Len(rs)}
    IN /\ OverallKeys \subseteq b.keys
       /\ \E i \in 1..Len(rs) :
             /\ \A d \in dates : rs[i].date <= d
             /\ b.first_value = rs[i].val
       /\ \E i \in 1..Len(rs) :
             /\ \A d \in dates : rs[i].date >= d
             /\ b.last_value = rs[i].val
       /\ b.change = b.last_value - b.first_value
       /\ (b.first_value = 0 => b.percent_change = 0)
       /\ b.trend_direction \in {"increasing", "decreasing"}

\* C22: on a sheet with rows, trend takes first and last in ascending date
\* order, reports percent change 0 when the first value is 0 and returns first
\* value, last value, change, percent change and a direction label; with a
\* group column it returns one such complete block, direction label included,
\* for every distinct value of the group column.
C22_TrendBlocksComplete ==
    (fn_done /\ fn_input.rows # <<>>) =>
        LET rows == fn_input.rows
            out == fn_output.blocks
            values == {rows[i].key : i \in 1..Len(rows)} \ {NaN}
        IN IF fn_input.grouped
             THEN \A k \in values :
                    /\ Cardinality({i \in 1..Len(out) : out[i].name = k}) = 1
                    /\ \A i \in 1..Len(out) :
                          out[i].name = k =>
                            CompleteBlock(out[i], SelectSeq(rows, LAMBDA r : r.key = k))
             ELSE /\ Len(out) = 1
                  /\ CompleteBlock(out[1], rows)

\* ============================================= ExcelHandler.process_file
\* Column names are sequences of characters, at most MaxNameLen long, over: a
\* space, an upper-case letter and a punctuation mark (lower-case letters and
\* underscores come about in the clean-up). A sheet has 1..MaxCols columns with distinct names;
\* `blank` marks a column without any value.
MaxNameLen == 2
MaxCols == 2
Alphabet == {" ", "A", "-"}
Names == UNION {[1..n -> Alphabet] : n \in 0..MaxNameLen}
Whitespace == {" ", "\t"}

\* str.strip()
RECURSIVE lstrip(_)
lstrip(n) ==
    IF n # <<>> /\ Head(n) \in Whitespace THEN lstrip(Tail(n)) ELSE n

RECURSIVE rstrip(_)
rstrip(n) ==
    IF n # <<>> /\ n[Len(n)] \in Whitespace
      THEN rstrip(SubSeq(n, 1, Len(n) - 1))
      ELSE n

strip(n) == rstrip(lstrip(n))

\* str.lower()
lower(n) == [i \in 1..Len(n) |-> IF n[i] = "A" THEN "a" ELSE n[i]]

\* str.replace(' ', '_')
replace_spaces(n) == [i \in 1..Len(n) |-> IF n[i] = " " THEN "_" ELSE n[i]]

\* str.replace('[^a-z0-9_]', '', regex=True) taking out the first match only.
regex_strip_first(n) ==
    LET bad == {i \in 1..Len(n) : n[i] \notin {"a", "_"}}
    IN IF bad = {} THEN n
       ELSE LET k == CHOOSE i \in bad : \A j \in bad : i <= j
            IN SubSeq(n, 1, k - 1) \o SubSeq(n, k + 1, Len(n))

\* str.replace('[^a-z0-9_]', '', regex=True)
regex_strip(n) == SelectSeq(n, LAMBDA c : c \in {"a", "_"})

\* The clean-up of one column name.
normalize(n) == regex_strip(replace_spaces(lower(strip(n))))

ColumnSet == [name : Names, blank : BOOLEAN]
Workbooks ==
    {cols \in UNION {[1..n -> ColumnSet] : n \in 1..MaxCols} :
        \A i, j \in DOMAIN cols : i # j => cols[i].name # cols[j].name}

\* process_file on a readable workbook with one sheet: rename the columns,
\* drop the columns without values, return the sheet. Nothing compares the
\* new names with one another.
ProcessSheet(cols) ==
    LET renamed == [i \in DOMAIN cols |->
                      [name |-> normalize(cols[i].name), blank |-> cols[i].blank]]
        kept == SelectSeq(renamed, LAMBDA c : ~c.blank)
    IN [status |-> "ok", columns |-> [i \in DOMAIN kept |-> kept[i].name]]

IngestInit ==
    /\ StoreInit
    /\ ThreadsIdle
    /\ AgentIdle
    /\ fn_input \in Workbooks
    /\ fn_output = [status |-> "none", columns |-> <<>>]
    /\ fn_done = FALSE

process_file ==
    /\ ~fn_done
    /\ fn_output' = ProcessSheet(fn_input)
    /\ fn_done' = TRUE
    /\ UNCHANGED <<storeVars, threadVars, routeVars, agentVars, heapVars,
                   logVars, fn_input>>

IngestNext == process_file

IngestSpec == IngestInit /\ [][IngestNext]_vars

\* C23: normalising a column name twice gives what normalising it once
\* gives, for every name of the sheet and for every name process_file returns.
C23_NormalizeIdempotent ==
    fn_done =>
        /\ \A i \in DOMAIN fn_input :
              normalize(normalize(fn_input[i].name)) = normalize(fn_input[i].name)
        /\ \A i \in DOMAIN fn_output.columns :
              normalize(fn_output.columns[i]) = fn_output.columns[i]

\* A sheet returned with two names that the steps changed between them: one
\* that lost outer whitespace, one that lost a character outside a-z0-9_.
C23_Witness ==
    /\ fn_done
    /\ \E i, j \in DOMAIN fn_input :
          LET n == fn_input[i].name
              m == fn_input[j].name
          IN /\ ~fn_input[i].blank /\ ~fn_input[j].blank
             /\ strip(n) # n
             /\ normalize(n) # <<>>
             /\ regex_strip(replace_spaces(lower(strip(m)))) # replace_spaces(lower(strip(m)))
             /\ normalize(m) # <<>>
             /\ fn_output.columns = <<normalize(fn_input[1].name), normalize(fn_input[2].name)>>

\* C24: when two distinct column names of a sheet normalise to the same
\* name, process_file fails instead of returning the sheet.
C24_CollisionsSurface ==
    fn_done =>
        ((\E i, j \in DOMAIN fn_input :
             /\ i # j
             /\ normalize(fn_input[i].name) = normalize(fn_input[j].name))
          => fn_output.status # "ok")

\* ========================================== MetadataBuilder.build_metadata
\* A workbook is a sequence of 1..MaxSheets sheets, named in order from
\* SheetNameOrder; a sheet is a sequence of at most MaxCols columns with
\* distinct names, each of one of three dtypes.
MaxSheets == 2
NamedLimit == 3
SheetNameOrder == <<"Sales", "Summary", "Notes">>
ColumnNames ==
    {<<"s", "a", "l", "e", "s">>,
     <<"r", "e", "g", "i", "o", "n">>,
     <<"u", "p", "d", "a", "t", "e", "d">>}
Dtypes == {"object", "int64", "datetime64[ns]"}
\* A text column, a numeric column, and a column of any of the dtypes whose
\* name has "date" in it.
TypedColumns ==
    {c \in [name : ColumnNames, dtype : Dtypes] :
        \/ c.name = <<"r", "e", "g", "i", "o", "n">> /\ c.dtype = "object"
        \/ c.name = <<"s", "a", "l", "e", "s">> /\ c.dtype = "int64"
        \/ c.name = <<"u", "p", "d", "a", "t", "e", "d">>}
TypedSheets ==
    {cols \in UNION {[1..n -> TypedColumns] : n \in 0..MaxCols} :
        \A i, j \in DOMAIN cols : i # j => cols[i].name # cols[j].name}
TypedWorkbooks == UNION {[1..n -> TypedSheets] : n \in 1..MaxSheets}

\* `word in col`
Contains(n, word) ==
    \E i \in 1..(Len(n) - Len(word) + 1) : SubSeq(n, i, i + Len(word) - 1) = word

\* pd.api.types.is_numeric_dtype, is_datetime64_any_dtype, is_object_dtype
is_numeric_dtype(c) == c.dtype = "int64"
is_datetime64_any_dtype(c) == c.dtype = "datetime64[ns]"
is_object_dtype(c) == c.dtype = "object"

\* The first k elements of a list: xs[:k].
Take(xs, k) == SubSeq(xs, 1, Min(k, Len(xs)))

\* The names of the columns of a list, as a set.
NamesIn(cols) == {cols[i].name : i \in DOMAIN cols}

\* A column _detect_relationships counts as a date column: by dtype, or by
\* "date" or "time" in its lower-cased name.
IsDateColumn(c) ==
    \/ is_datetime64_any_dtype(c)
    \/ Contains(lower(c.name), <<"d", "a", "t", "e">>)
    \/ Contains(lower(c.name), <<"t", "i", "m", "e">>)

\* _detect_relationships: the sentences of the note and the columns they name.
DetectRelationships(cols) ==
    LET categorical_cols == SelectSeq(cols, is_object_dtype)
        numeric_cols == SelectSeq(cols, is_numeric_dtype)
        datetime_cols == SelectSeq(cols, IsDateColumn)
        grouping == categorical_cols # <<>> /\ numeric_cols # <<>>
        series == datetime_cols # <<>> /\ numeric_cols # <<>>
    IN [sentences |-> (IF grouping THEN 1 ELSE 0) + (IF series THEN 1 ELSE 0),
        names |->
            (IF grouping
               THEN NamesIn(Take(categorical_cols, NamedLimit))
                      \cup NamesIn(Take(numeric_cols, NamedLimit))
               ELSE {})
            \cup
            (IF series
               THEN {datetime_cols[1].name} \cup NamesIn(Take(numeric_cols, NamedLimit))
               ELSE {})]

Fragment(type, sheet, column, names) ==
    [type |-> type, sheet_name |-> sheet, column_name |-> column, names |-> names]

\* The documents of one sheet: its summary, one per column, then the note.
SheetDocuments(sheet, cols) ==
    LET rel == DetectRelationships(cols)
    IN <<Fragment("sheet_summary", sheet, <<>>, NamesIn(cols))>>
       \o [i \in DOMAIN cols |-> Fragment("column_info", sheet, cols[i].name, {})]
       \o (IF rel.sentences > 0
             THEN <<Fragment("relationships", sheet, <<>>, rel.names)>>
             ELSE <<>>)

RECURSIVE BuildMetadata(_, _)
BuildMetadata(sheets, from) ==
    IF from > Len(sheets) THEN <<>>
    ELSE SheetDocuments(SheetNameOrder[from], sheets[from])
           \o BuildMetadata(sheets, from + 1)

MetadataInit ==
    /\ StoreInit
    /\ ThreadsIdle
    /\ AgentIdle
    /\ fn_input \in TypedWorkbooks
    /\ fn_output = <<>>
    /\ fn_done = FALSE

build_metadata ==
    /\ ~fn_done
    /\ fn_output' = BuildMetadata(fn_input, 1)
    /\ fn_done' = TRUE
    /\ UNCHANGED <<storeVars, threadVars, routeVars, agentVars, heapVars,
                   logVars, fn_input>>

MetadataNext == build_metadata

MetadataSpec == MetadataInit /\ [][MetadataNext]_vars

\* The documents of a type for a sheet (and, for column_info, a column).
DocsOf(type, sheet, column) ==
    {i \in DOMAIN fn_output :
        /\ fn_output[i].type = type
        /\ fn_output[i].sheet_name = sheet
        /\ fn_output[i].column_name = column}

\* C25: for each sheet build_metadata emits exactly one sheet summary, exactly
\* one column-info fragment per column and at most one relationship note; the
\* note is there exactly when the sheet has a categorical and a numeric
\* column, or a column of a date type and a numeric column, and names only
\* columns of the sheet.
C25_FragmentsPerSheet ==
    fn_done =>
        \A s \in DOMAIN fn_input :
            LET cols == fn_input[s]
                sheet == SheetNameOrder[s]
                notes == DocsOf("relationships", sheet, <<>>)
                numeric == \E i \in DOMAIN cols : is_numeric_dtype(cols[i])
                categorical == \E i \in DOMAIN cols : is_object_dtype(cols[i])
                temporal == \E i \in DOMAIN cols : is_datetime64_any_dtype(cols[i])
            IN /\ Cardinality(DocsOf("sheet_summary", sheet, <<>>)) = 1
               /\ \A i \in DOMAIN cols :
                     Cardinality(DocsOf("column_info", sheet, cols[i].name)) = 1
               /\ Cardinality({i \in DOMAIN fn_output :
                                  /\ fn_output[i].type = "column_info"
                                  /\ fn_output[i].sheet_name = sheet}) = Len(cols)
               /\ Cardinality(notes) <= 1
               /\ (notes # {}) <=> ((categorical /\ numeric) \/ (temporal /\ numeric))
               /\ \A i \in notes : fn_output[i].names \subseteq NamesIn(cols)

\* ================================== get_column_info and query_schema texts
\* A text is a sequence of pieces, the empty string being <<>>. A retrieval
\* answers with at most MaxDocs documents of the index, or fails.
MaxDocs == 2
PageContents ==
    {<<"Sheet Name: Sales ...">>, <<"Column Name: sales ...">>,
     <<"Sheet 'Sales' contains data that can be grouped by region ...">>}
Retrievals ==
    [fails : BOOLEAN, docs : UNION {[1..n -> PageContents] : n \in 0..MaxDocs}]
LookupTools == {"get_column_info", "query_schema"}

\* VectorStoreManager.query_metadata (get_column_info passes through it):
\* ValueError with its text when the store is absent or the search fails.
QueryMetadata(st, sim) ==
    IF QId \notin DOMAIN st
      THEN [raised |-> TRUE,
            val |-> <<"Vector store for dataset ", "1", " not found. Please upload the dataset first.">>]
      ELSE IF sim.fails
        THEN [raised |-> TRUE,
              val |-> <<"Failed to query vector store: ", "similarity search failed">>]
        ELSE [raised |-> FALSE, val |-> sim.docs]

\* "\n\n---\n\n".join(info_parts)
RECURSIVE Join(_)
Join(parts) ==
    IF parts = <<>> THEN <<>>
    ELSE IF Len(parts) = 1 THEN parts[1]
    ELSE parts[1] \o <<"\n\n---\n\n">> \o Join(Tail(parts))

NothingFound(tool) ==
    IF tool = "get_column_info"
      THEN <<"No column information found in metadata.">>
      ELSE <<"No relevant schema information found.">>

ErrorPrefix(tool) ==
    IF tool = "get_column_info"
      THEN <<"Error retrieving column info: ">>
      ELSE <<"Error querying schema: ">>

\* The lookup without its `if not docs` test.
SchemaText_without_empty_test(tool, st, sim) ==
    LET docs == QueryMetadata(st, sim)
    IN IF docs.raised THEN ErrorPrefix(tool) \o docs.val
       ELSE Join(docs.val)

\* The string get_column_info or query_schema returns.
SchemaText(tool, st, sim) ==
    LET docs == QueryMetadata(st, sim)
    IN IF docs.raised THEN ErrorPrefix(tool) \o docs.val
       ELSE IF docs.val = <<>> THEN NothingFound(tool)
       ELSE Join(docs.val)

LookupInit ==
    /\ \/ StoreInit
       \/ UploadedInit
    /\ ThreadsIdle
    /\ AgentIdle
    /\ fn_input \in [tool : LookupTools, sim : Retrievals]
    /\ fn_output = <<>>
    /\ fn_done = FALSE

schema_text ==
    /\ ~fn_done
    /\ fn_output' = SchemaText(fn_input.tool, stores, fn_input.sim)
    /\ fn_done' = TRUE
    /\ UNCHANGED <<storeVars, threadVars, routeVars, agentVars, heapVars,
                   logVars, fn_input>>

LookupNext == schema_text

LookupSpec == LookupInit /\ [][LookupNext]_vars

\* C26: a schema lookup never returns the empty string; it returns its
\* nothing-found message exactly when the retrieval succeeded with no
\* document; when the store is absent or the search fails it returns another
\* message, which ends with the text of the error.
C26_LookupMessages ==
    fn_done =>
        LET failed == QId \notin DOMAIN stores \/ fn_input.sim.fails
            error == QueryMetadata(stores, fn_input.sim).val
        IN /\ fn_output # <<>>
           /\ (fn_output = NothingFound(fn_input.tool))
                 <=> (~failed /\ fn_input.sim.docs = <<>>)
           /\ failed =>
                 /\ Len(fn_output) > Len(error)
                 /\ SubSeq(fn_output, Len(fn_output) - Len(error) + 1, Len(fn_output)) = error

\* A lookup on an existing store whose search found no document.
C26_Witness ==
    /\ fn_done
    /\ QId \in DOMAIN stores
    /\ ~fn_input.sim.fails
    /\ fn_input.sim.docs = <<>>
    /\ fn_output = NothingFound(fn_input.tool)

\* ======================================= concurrent DataAnalysisAgent.query
\* Each thread runs query(dataset_id, sheet_name, ...) with its own locals:
\* arg[t] holds the arguments, the actions its loop chose (a record of what
\* happened) and at the end the dictionary it returns; held[t] holds the
\* AgentExecutor it created, an object on the heap that carries the tools
\* made by create_tools and the steps so far; ret[t] is the action chosen last.
ExecutorObj(id, sheet, steps) ==
    [kind |-> "agent_executor", items |-> <<>>,
     tools |-> [dataset_id |-> id, sheet_name |-> sheet],
     intermediate_steps |-> steps]

\* The action the loop chooses when it does not answer.
LoopActions == {"aggregate_data"}
QuerySheets == {"Sales", "Missing"}
NoResult == [success |-> FALSE, execution_steps |-> <<>>, returned |-> FALSE]

\* An allocation that hands out an object of the same kind made earlier.
Alloc_shared(h, obj) ==
    IF \E r \in DOMAIN h : h[r].kind = obj.kind
      THEN [heap |-> h, ref |-> CHOOSE r \in DOMAIN h : h[r].kind = obj.kind]
      ELSE [heap |-> DictSet(h, NewRef(h), obj), ref |-> NewRef(h)]

\* A constructor call: a new object.
Alloc(h, obj) == [heap |-> DictSet(h, NewRef(h), obj), ref |-> NewRef(h)]

\* The object thread t holds under a name.
HeldRef(hd, t, name) ==
    hd[t][CHOOSE k \in 1..Len(hd[t]) : hd[t][k].name = name].ref

\* The heap without the objects only thread t holds.
Dropped(h, hd, t) ==
    LET gone == {r \in RefsOf(hd[t]) :
                    \A u \in DOMAIN hd : u # t => r \notin RefsOf(hd[u])}
    IN [r \in DOMAIN h \ gone |-> h[r]]

\* The observation of a tool run against a dataset and sheet: the rows of
\* the sheet it read, or a failure.
RunAgainst(h, ds, id, sheet) ==
    IF id \in DOMAIN ds /\ HasKey(h, ds[id], sheet)
      THEN h[Lookup(h, ds[id], sheet)].rows
      ELSE -1

\* execution_steps: the intermediate steps, numbered from 1.
TraceOf(steps) ==
    [i \in 1..Len(steps) |->
        [step |-> i, action |-> steps[i].action, by |-> steps[i].by,
         dataset_id |-> steps[i].dataset_id, sheet_name |-> steps[i].sheet_name,
         observation |-> steps[i].observation]]

\* query() returns a dictionary; its executor and tools go.
QueryReturns(t, success, steps) ==
    /\ arg' = [arg EXCEPT ![t].result =
                 [success |-> success, execution_steps |-> steps, returned |-> TRUE]]
    /\ heap' = Dropped(heap, held, t)
    /\ held' = [held EXCEPT ![t] = <<>>]
    /\ pc' = [pc EXCEPT ![t] = "done"]

\* query(): get_dataframe, then create_tools and AgentExecutor; a missing
\* sheet raises and the except branch answers.
query_begin(t) ==
    /\ pc[t] = "idle"
    /\ \E id \in Ids, sheet \in QuerySheets :
          /\ op' = [op EXCEPT ![t] = "query"]
          /\ IF id \in DOMAIN datasets /\ HasKey(heap, datasets[id], sheet)
               THEN LET executor == Alloc(heap, ExecutorObj(id, sheet, <<>>))
                    IN /\ heap' = executor.heap
                       /\ held' = [held EXCEPT ![t] =
                                     <<Item("agent_executor", executor.ref)>>]
                       /\ arg' = [arg EXCEPT ![t] =
                                    [id |-> id, sheet |-> sheet, chosen |-> <<>>,
                                     result |-> NoResult]]
                       /\ pc' = [pc EXCEPT ![t] = "q_think"]
               ELSE /\ arg' = [arg EXCEPT ![t] =
                                 [id |-> id, sheet |-> sheet, chosen |-> <<>>,
                                  result |-> [NoResult EXCEPT !.returned = TRUE]]]
                    /\ pc' = [pc EXCEPT ![t] = "done"]
                    /\ UNCHANGED heapVars
    /\ UNCHANGED <<storeVars, ret, stack, routeVars, agentVars, fnVars, logVars>>

\* One round of the loop: over budget or on a final answer the steps are
\* returned; a failing model call raises; otherwise an action is chosen.
query_think(t) ==
    /\ pc[t] = "q_think"
    /\ LET steps == heap[HeldRef(held, t, "agent_executor")].intermediate_steps
       IN IF ~ShouldContinue(Len(steps))
            THEN /\ QueryReturns(t, TRUE, TraceOf(steps))
                 /\ UNCHANGED ret
            ELSE \E reply \in LoopActions \cup {"final", "failure"} :
                   CASE reply = "final" ->
                          /\ QueryReturns(t, TRUE, TraceOf(steps))
                          /\ UNCHANGED ret
                     [] reply = "failure" ->
                          /\ QueryReturns(t, FALSE, <<>>)
                          /\ UNCHANGED ret
                     [] OTHER ->
                          /\ ret' = [ret EXCEPT ![t] = reply]
                          /\ arg' = [arg EXCEPT ![t].chosen = Append(@, reply)]
                          /\ pc' = [pc EXCEPT ![t] = "q_act"]
                          /\ UNCHANGED heapVars
    /\ UNCHANGED <<storeVars, op, stack, routeVars, agentVars, fnVars, logVars>>

\* The chosen tool runs through this executor's tools (get_df reads the
\* dataset and sheet they were created for); the executor appends the step.
query_act(t) ==
    /\ pc[t] = "q_act"
    /\ LET e == HeldRef(held, t, "agent_executor")
           tools == heap[e].tools
           step == [action |-> ret[t], by |-> t,
                    dataset_id |-> tools.dataset_id,
                    sheet_name |-> tools.sheet_name,
                    observation |-> RunAgainst(heap, datasets, tools.dataset_id,
                                               tools.sheet_name)]
       IN heap' = [heap EXCEPT ![e].intermediate_steps = Append(@, step)]
    /\ pc' = [pc EXCEPT ![t] = "q_think"]
    /\ UNCHANGED <<storeVars, op, arg, ret, stack, routeVars, agentVars, fnVars, logVars,
                   held>>

\* Every dataset id has its sheets, its metadata and its index store.
AllUploadedInit ==
    /\ datasets = [i \in Ids |-> ((i - 1) % NumVals) + 1]
    /\ metadata = datasets
    /\ stores = datasets
    /\ data_lock = NoThread
    /\ store_lock = NoThread
    /\ heap = ParsedWorkbooks

QueriesInit == AllUploadedInit /\ ThreadInit /\ AgentIdle

QueriesNext ==
    \E t \in Threads :
        \/ query_begin(t)
        \/ query_think(t)
        \/ query_act(t)
        \/ Finish(t)

QueriesSpec == QueriesInit /\ [][QueriesNext]_vars

\* C27: the trace a query returns holds exactly the actions its own loop
\* chose, in order, each run against the dataset id and sheet name the query
\* was called with, whatever other queries ran meanwhile.
C27_TranscriptsIndependent ==
    \A t \in Threads :
        (op[t] = "query" /\ pc[t] = "done") =>
            LET r == arg[t].result
                trace == r.execution_steps
            IN /\ r.success => [k \in 1..Len(trace) |-> trace[k].action] = arg[t].chosen
               /\ \A k \in 1..Len(trace) :
                     /\ trace[k].by = t
                     /\ trace[k].dataset_id = arg[t].id
                     /\ trace[k].sheet_name = arg[t].sheet
                     /\ trace[k].observation
                           = RunAgainst(heap, datasets, arg[t].id, arg[t].sheet)

\* Two queries on different datasets have both returned a trace with steps,
\* and the traces differ in length.
C27_Witness ==
    \E t, u \in Threads :
        /\ t # u
        /\ op[t] = "query" /\ pc[t] = "done"
        /\ op[u] = "query" /\ pc[u] = "done"
        /\ arg[t].id # arg[u].id
        /\ Len(arg[t].chosen) > 0
        /\ Len(arg[u].chosen) > 0
        /\ Len(arg[t].chosen) # Len(arg[u].chosen)
        /\ arg[t].result.success
        /\ arg[u].result.success

\* ========================================== the caller of add_dataset
\* After add_dataset(D, sheets, metadata) has returned, its caller changes
\* the mapping it passed: it removes the first sheet, adds a table it has
\* (CallerTable) under a new name, or drops the rows of the first sheet's
\* table.
CallerTable ==
    CHOOSE r \in DOMAIN CallerWorkbooks : CallerWorkbooks[r].tag = "Summary"

caller_mutate_passed(t) ==
    /\ pc[t] = "done"
    /\ op[t] = "add_dataset"
    /\ \E change \in {"del_sheet", "add_sheet", "drop_rows"} :
          LET d == arg[t].val
              new == CASE change = "del_sheet" /\ heap[d].items # <<>> ->
                            [heap EXCEPT ![d].items = Tail(@)]
                       [] change = "add_sheet" /\ ~HasKey(heap, d, "Added") ->
                            [heap EXCEPT ![d].items =
                                Append(@, Item("Added", CallerTable))]
                       [] change = "drop_rows" /\ heap[d].items # <<>> ->
                            [heap EXCEPT ![Head(heap[d].items).ref].rows = 0]
                       [] OTHER -> heap
          IN /\ new # heap
             /\ heap' = new
    /\ UNCHANGED <<storeVars, threadVars, routeVars, agentVars, fnVars, logVars, held>>

OwnerNext ==
    \E t \in Threads :
        \/ SheetCall(t)
        \/ add_dataset_lock(t)
        \/ add_dataset_sheets(t)
        \/ add_dataset_meta(t)
        \/ delete_dataset_lock(t)
        \/ delete_dataset_sheets(t)
        \/ delete_dataset_meta(t)
        \/ get_dataframe(t)
        \/ get_all_sheets(t)
        \/ get_sheet_names(t)
        \/ caller_mutate_passed(t)
        \/ Finish(t)

OwnerSpec == SheetInit /\ [][OwnerNext]_vars

\* What the three reads return for every dataset and sheet-name argument.
ReadsView ==
    [d \in DOMAIN datasets |->
        [names |-> Keys(heap, datasets[d]),
         sheets |-> AllSheetsResult(d),
         frames |-> [n \in SheetArgs |-> ReadResult(d, n)]]]

\* C28: once add_dataset has returned, a change its caller makes to the
\* mapping or the tables it passed in changes nothing of what get_dataframe,
\* get_all_sheets and get_sheet_names return for any stored dataset.
C28_StoreOwnsItsSheets ==
    [][\A t \in Threads :
          (pc[t] = "done" /\ op[t] = "add_dataset" /\ pc' = pc /\ heap' # heap)
              => ReadsView' = ReadsView
      ]_vars

\* C29: a query() that failed, at get_dataframe or by an exception of the
\* loop after any number of executed steps, returns success=false, the
\* exception text as error, an answer that ends with that text, and an empty
\* step trace.
C29_FailureResponseShape ==
    (q_pc = "done" /\ ~response.success) =>
        /\ response.error = (IF llm_out = "failure" THEN "LLMError" ELSE "ValueError")
        /\ Len(response.answer) > 1
        /\ response.answer[Len(response.answer)] = response.error
        /\ response.execution_steps = <<>>

\* The reasoning call failed after at least one action had been executed and
\* recorded.
C29_Witness ==
    /\ q_pc = "done"
    /\ ~response.success
    /\ llm_out = "failure"
    /\ Len(intermediate_steps) >= 1
    /\ Len(executed) >= 1
    /\ response.execution_steps = <<>>

\* C30: delete_store(D) on an existing store whose collection could not be
\* deleted still returns normally, with D gone from the manager and the
\* stores of all other dataset ids as they were.
C30_DeleteSurvivesCollectionFailure ==
    [][\A t \in Threads :
          (pc[t] = "ds_body" /\ pc'[t] # "ds_body"
           /\ arg[t].id \in DOMAIN stores /\ warned'[t])
              => /\ ret'[t] = "ok"
                 /\ arg[t].id \notin DOMAIN stores'
                 /\ DOMAIN stores' = DOMAIN stores \ {arg[t].id}
                 /\ \A i \in DOMAIN stores' : stores'[i] = stores[i]
      ]_vars

\* A delete_store whose collection could not be deleted has returned; its
\* store is gone and another dataset's store is still there.
C30_Witness ==
    \E t \in Threads :
        /\ op[t] = "delete_store" /\ pc[t] = "done"
        /\ warned[t]
        /\ ret[t] = "ok"
        /\ arg[t].id \notin DOMAIN stores
        /\ stores # EmptyDict

====
